---- MODULE Spec2Model ----
(***************************************************************************)
(* Verification model of koishi-plugin-keyword-gatekeeper: the violation   *)
(* ledger (WarningManager), the escalation policy of the keyword and URL   *)
(* handlers, and the message middleware that drives them.                  *)
(*                                                                         *)
(* Clock.  Date.now() is a millisecond epoch and the reset window is       *)
(* punishmentResetHours * 60 * 60 * 1000 ms.  The model measures both in   *)
(* whole hours (the comparison now - last > window is unchanged by the     *)
(* common factor), and starts the clock after the largest configurable     *)
(* window, as a real epoch time is: a lastTriggerTime of 0 is then always  *)
(* "expired", exactly as in the program.                                   *)
(***************************************************************************)
EXTENDS Integers, Sequences, FiniteSets, TLC

VARIABLES
  store,      \* table keyword_warnings: one row per (userId, guildId)
  cache,      \* punishmentRecords map of every WarningManager instance
  now,        \* Date.now(), in hours
  config,     \* the plugin configuration object
  dbGroupConfig, \* table keyword_group_config of KeywordDatabase
  session,    \* the session of the most recent inbound message
  calls,      \* calls made by the most recent operation, in order
  appended,   \* per key: every history entry ever pushed, in push order
  pc,         \* concurrent recordViolation calls: position of each call
  local,      \* concurrent recordViolation calls: the row and time of each
  started,    \* concurrent recordViolation calls: in-window count at start
  gcTable,    \* table keyword_group_configs of GroupConfigManager
  gcCache,    \* groupConfigs map of GroupConfigManager
  mpc,        \* getMergedConfig calls: position of each call
  mlocal,     \* getMergedConfig calls: the locals of each call
  probe,      \* the arguments of the function applied last
  answer,     \* what that function returned
  mw          \* one invocation of a middleware, step by step

vars == <<store, cache, now, config, dbGroupConfig, session, calls, appended,
          pc, local, started, gcTable, gcCache, mpc, mlocal, probe, answer,
          mw>>

\* the variables of GroupConfigManager and of the calls of getMergedConfig
resolveVars == <<gcTable, gcCache, mpc, mlocal>>

\* the variables of the functions applied on their own and of the
\* middleware taken step by step
probeVars == <<probe, answer, mw>>

----------------------------------------------------------------------------
(* Bounds of the model *)

MaxTicks == 3          \* the clock advances at most this many hours
MaxRecords == 3        \* recorded violations per key in the ledger runs
MaxHistoryRecords == 12 \* recorded violations in the history runs
MaxSeed == 10          \* earlier violations in the seeded runs
StartHour == 721       \* first clock value, beyond the largest window

(* Program constants *)

HistoryLimit == 10     \* warning-manager.ts:320
LongMuteSeconds == 3600 \* keyword-handler.ts:628

Users == {"u1", "u2"}
Guilds == {"g1", "g2"}
Keys == Users \X Guilds
Managers == {"index", "keywordHandler", "urlHandler", "messageHandler"}
Procs == {1, 2}

----------------------------------------------------------------------------
(* Rows of keyword_warnings *)

\* no row for the key
NoRow ==
  [present |-> FALSE, count |-> 0, lastTriggerTime |-> 0,
   lastTriggerKeyword |-> "", lastTriggerType |-> "", lastActionType |-> "",
   lastMessageContent |-> "", actionHistory |-> <<>>]

\* the row updateUserPunishmentRecord creates
NewRecordForUpdate ==
  [present |-> TRUE, count |-> 0, lastTriggerTime |-> 0,
   lastTriggerKeyword |-> "", lastTriggerType |-> "keyword",
   lastActionType |-> "warn", lastMessageContent |-> "",
   actionHistory |-> <<>>]

NewRecordForQuery_CountOne ==
  [present |-> TRUE, count |-> 1, lastTriggerTime |-> 0,
   lastTriggerKeyword |-> "", lastTriggerType |-> "", lastActionType |-> "",
   lastMessageContent |-> "", actionHistory |-> <<>>]

\* the row queryUserWarningRecord creates (only count and lastTriggerTime set)
NewRecordForQuery ==
  [present |-> TRUE, count |-> 0, lastTriggerTime |-> 0,
   lastTriggerKeyword |-> "", lastTriggerType |-> "", lastActionType |-> "",
   lastMessageContent |-> "", actionHistory |-> <<>>]

NoCache == [present |-> FALSE, count |-> 0, lastTriggerTime |-> 0]

CacheEntry(c, t) == [present |-> TRUE, count |-> c, lastTriggerTime |-> t]

\* the state one operation works on: the tables, the caches, the pushed
\* history entries, the calls made so far, and the value last returned
\* (ret for a number, ok for a boolean)
Thread(s, c, a, gc, cl) ==
  [store |-> s, cache |-> c, appended |-> a, groupConfig |-> gc, calls |-> cl,
   ret |-> 0, ok |-> FALSE]

Returning(S, r, b) == [S EXCEPT !.ret = r, !.ok = b]

Call(op, u, g, n, b) == [op |-> op, user |-> u, guild |-> g, n |-> n, ok |-> b]

Emit(S, op, k, n, b) ==
  [S EXCEPT !.calls = Append(@, Call(op, k[1], k[2], n, b)), !.ret = n, !.ok = b]

Trigger(kw, type, action, content) ==
  [keyword |-> kw, type |-> type, action |-> action, messageContent |-> content]

resetTimeMs(cfg) == cfg.punishmentResetHours

LimitHistory_KeepOldest(history) ==
  IF Len(history) > HistoryLimit
    THEN SubSeq(history, 1, HistoryLimit)
    ELSE history

\* history.slice(history.length - 10) once the length exceeds 10
LimitHistory(history) ==
  IF Len(history) > HistoryLimit
    THEN SubSeq(history, Len(history) - HistoryLimit + 1, Len(history))
    ELSE history

HistoryEntry(t, trig) ==
  [time |-> t, keyword |-> trig.keyword, type |-> trig.type,
   action |-> trig.action, message |-> trig.messageContent]

Expired_AtWindow(record, t, cfg) == t - record.lastTriggerTime >= resetTimeMs(cfg)

\* the expiry test of updateUserPunishmentRecord and queryUserWarningRecord
Expired(record, t, cfg) == t - record.lastTriggerTime > resetTimeMs(cfg)

oldCount_Kept(record, t, cfg) == record.count

\* oldCount after the expiry check of updateUserPunishmentRecord
oldCount(record, t, cfg) == IF Expired(record, t, cfg) THEN 0 ELSE record.count

UpdateData_PlusTwo(record, t, cfg, trig) ==
  [count |-> oldCount(record, t, cfg) + 2,
   lastTriggerTime |-> t,
   lastTriggerKeyword |-> trig.keyword,
   lastTriggerType |-> trig.type,
   lastActionType |-> trig.action,
   lastMessageContent |-> trig.messageContent,
   actionHistory |->
     LimitHistory(Append(record.actionHistory, HistoryEntry(t, trig)))]

\* updateData of updateUserPunishmentRecord, computed from the row read
UpdateData(record, t, cfg, trig) ==
  [count |-> oldCount(record, t, cfg) + 1,
   lastTriggerTime |-> t,
   lastTriggerKeyword |-> trig.keyword,
   lastTriggerType |-> trig.type,
   lastActionType |-> trig.action,
   lastMessageContent |-> trig.messageContent,
   actionHistory |->
     LimitHistory(Append(record.actionHistory, HistoryEntry(t, trig)))]

\* database.set('keyword_warnings', {userId, guildId}, updateData): the
\* fields of updateData overwrite those of the row; lastMessageContent is
\* part of updateData only when the message content is not empty
SetRow(row, data) ==
  IF ~row.present THEN row
  ELSE [row EXCEPT
          !.count = data.count,
          !.lastTriggerTime = data.lastTriggerTime,
          !.lastTriggerKeyword = data.lastTriggerKeyword,
          !.lastTriggerType = data.lastTriggerType,
          !.lastActionType = data.lastActionType,
          !.lastMessageContent =
             IF data.lastMessageContent # "" THEN data.lastMessageContent ELSE @,
          !.actionHistory = data.actionHistory]

ZeroRow_Unchanged(row) == row

\* database.set(..., {count: 0, lastTriggerTime: 0})
ZeroRow(row) ==
  IF ~row.present THEN row
  ELSE [row EXCEPT !.count = 0, !.lastTriggerTime = 0]

\* WarningManager.updateUserPunishmentRecord, run without interruption
updateUserPunishmentRecord(S, w, k, cfg, t, trig) ==
  LET record == IF S.store[k].present THEN S.store[k] ELSE NewRecordForUpdate
      data == UpdateData(record, t, cfg, trig)
      written == [S EXCEPT
                    !.store[k] = SetRow(record, data),
                    !.cache[w][k] = CacheEntry(data.count, data.lastTriggerTime),
                    !.appended[k] = Append(@, HistoryEntry(t, trig))]
  IN Emit(written, "record", k, data.count, TRUE)

queryUserWarningRecord_Touching(S, w, k, cfg, t) ==
  LET record == S.store[k]
  IN IF ~record.present
       THEN Emit([S EXCEPT !.store[k] = NewRecordForQuery,
                           !.cache[w][k] = CacheEntry(0, 0)],
                 "query", k, 0, TRUE)
     ELSE IF record.lastTriggerTime = 0
       THEN Emit(S, "query", k, 0, TRUE)
     ELSE IF Expired(record, t, cfg)
       THEN Emit([S EXCEPT !.store[k] = ZeroRow(record),
                           !.cache[w][k] = CacheEntry(0, 0)],
                 "query", k, 0, TRUE)
     ELSE Emit([S EXCEPT !.store[k].lastTriggerTime = t],
               "query", k, record.count, TRUE)

\* WarningManager.queryUserWarningRecord: ret is the count it reports
queryUserWarningRecord(S, w, k, cfg, t) ==
  LET record == S.store[k]
  IN IF ~record.present
       THEN Emit([S EXCEPT !.store[k] = NewRecordForQuery,
                           !.cache[w][k] = CacheEntry(0, 0)],
                 "query", k, 0, TRUE)
     ELSE IF record.lastTriggerTime = 0
       THEN Emit(S, "query", k, 0, TRUE)
     ELSE IF Expired(record, t, cfg)
       THEN Emit([S EXCEPT !.store[k] = ZeroRow(record),
                           !.cache[w][k] = CacheEntry(0, 0)],
                 "query", k, 0, TRUE)
     ELSE Emit(S, "query", k, record.count, TRUE)

ResetWrittenRow_Cleared(row) == [ZeroRow(row) EXCEPT !.actionHistory = <<>>]

ResetWrittenRow_CountOnly(row) == [row EXCEPT !.count = 0]

\* the row resetUserWarningRecord writes over a row that exists
ResetWrittenRow(row) == ZeroRow(row)

\* WarningManager.resetUserWarningRecord: ok is the boolean it returns
resetUserWarningRecord(S, w, k) ==
  IF ~S.store[k].present
    THEN Emit(S, "reset", k, 0, FALSE)
    ELSE Emit([S EXCEPT !.store[k] = ResetWrittenRow(S.store[k]),
                        !.cache[w][k] = CacheEntry(0, 0)],
              "reset", k, 0, TRUE)

----------------------------------------------------------------------------
(* Messages.  A message text is one of a few fixed texts; what a text       *)
(* contains (lower-cased substrings, URL candidates) is tabulated.          *)

Contents ==
  {"hello", "this is spam", "cheap ad", "spam ad", "see evil.example",
   "spam at evil.example", "keyword.warning.my", "kw.warn.my"}

\* the configured words that occur in the lower-cased text
WordsIn(content) ==
  CASE content = "this is spam" -> {"spam"}
    [] content = "cheap ad" -> {"ad"}
    [] content = "spam ad" -> {"spam", "ad"}
    [] content = "spam at evil.example" -> {"spam"}
    [] content = "ikun fan" -> {"kun"}
    [] OTHER -> {}

\* the host names the URL patterns find in the text, in match order
HostsIn(content) ==
  CASE content = "see evil.example" -> <<"evil.example">>
    [] content = "spam at evil.example" -> <<"evil.example">>
    [] OTHER -> <<>>

\* the first element of a sequence that satisfies a test, "" when none does
RECURSIVE FirstIn(_, _, _)
FirstIn(seq, i, good) ==
  IF i > Len(seq) THEN ""
  ELSE IF seq[i] \in good THEN seq[i]
  ELSE FirstIn(seq, i + 1, good)

Range(seq) == {seq[i] : i \in 1..Len(seq)}

\* KeywordHandler.checkKeywords with useRegex off: the first keyword of the
\* list that the lower-cased text contains, "" for null
checkKeywords(content, keywords) == FirstIn(keywords, 1, WordsIn(content))

\* UrlHandler.checkUrls: the first URL whose host is not whitelisted
UrlHandler_checkUrls(content, whitelist) ==
  FirstIn(HostsIn(content), 1, Range(HostsIn(content)) \ Range(whitelist))

\* KeywordHandler.checkUrls: the first URL whose domain is not whitelisted
KeywordHandler_checkUrls(content, whitelist) ==
  FirstIn(HostsIn(content), 1, Range(HostsIn(content)) \ Range(whitelist))

\* the session of one inbound message and what the platform will answer
Meta(u, g, content, perm, admin, recallOk, muteOk, kickOk) ==
  [userId |-> u, guildId |-> g, content |-> content,
   hasBotPermission |-> perm, isUserAdmin |-> admin,
   recallOk |-> recallOk, muteOk |-> muteOk, kickOk |-> kickOk]

KeyOf(meta) == <<meta.userId, meta.guildId>>

recallMessage(S, meta) == Emit(S, "recall", KeyOf(meta), 0, meta.recallOk)

muteUser(S, meta, duration) == Emit(S, "mute", KeyOf(meta), duration, meta.muteOk)

kickUser(S, meta) == Emit(S, "kick", KeyOf(meta), 0, meta.kickOk)

sendNotice(S, meta) == Emit(S, "notice", KeyOf(meta), 0, TRUE)

----------------------------------------------------------------------------
(* KeywordHandler (keyword-handler.ts, the class with a WarningManager) *)

\* KeywordHandler.updatePunishmentType: writes the trigger fields of the
\* row directly, leaving count, lastTriggerTime and the history alone
updatePunishmentType(S, meta, trig) ==
  LET k == KeyOf(meta)
  IN IF ~S.store[k].present THEN S
     ELSE Emit([S EXCEPT !.store[k] =
                  [@ EXCEPT !.lastTriggerKeyword = trig.keyword,
                            !.lastTriggerType = trig.type,
                            !.lastActionType = trig.action,
                            !.lastMessageContent =
                               IF trig.messageContent # ""
                                 THEN trig.messageContent ELSE @]],
               "settype", k, 0, TRUE)

\* muteDuration of KeywordHandler.handleAutoPunishment for a count >= 2
\* (at the maximum it is the value used when no kick happens)
KeywordMuteDuration(violationCount, cfg) ==
  IF violationCount = 2 THEN cfg.secondViolationMuteDuration
  ELSE IF violationCount >= cfg.maxViolationCount THEN LongMuteSeconds
  ELSE cfg.secondViolationMuteDuration * (violationCount - 1)

KeywordTriesKick_AboveMax(violationCount, cfg) ==
  /\ violationCount > 2
  /\ violationCount > cfg.maxViolationCount
  /\ cfg.kickOnMaxViolation

\* whether KeywordHandler.handleAutoPunishment tries to kick at this count
KeywordTriesKick(violationCount, cfg) ==
  /\ violationCount > 2
  /\ violationCount >= cfg.maxViolationCount
  /\ cfg.kickOnMaxViolation

\* KeywordHandler.handleAutoPunishment from the count on: the punishment
KeywordPunish(S, meta, cfg, violationCount, kw) ==
  LET trig(action) == Trigger(kw, "keyword", action, meta.content)
  IN IF ~meta.hasBotPermission THEN Returning(S, 0, TRUE)
     ELSE IF violationCount = 1
       THEN Returning(sendNotice(updatePunishmentType(S, meta, trig("warn")), meta),
                      0, TRUE)
     ELSE IF violationCount >= 2
       THEN LET S1 == IF KeywordTriesKick(violationCount, cfg)
                        THEN kickUser(S, meta) ELSE S
            IN IF KeywordTriesKick(violationCount, cfg) /\ meta.kickOk
                 THEN Returning(updatePunishmentType(S1, meta, trig("kick")), 0, TRUE)
               ELSE LET muteDuration == KeywordMuteDuration(violationCount, cfg)
                        S2 == IF muteDuration > 0
                                THEN muteUser(S1, meta, muteDuration) ELSE S1
                    IN IF muteDuration > 0 /\ meta.muteOk
                         THEN Returning(
                                sendNotice(
                                  updatePunishmentType(S2, meta, trig("mute")), meta),
                                0, TRUE)
                         ELSE Returning(S2, 0, FALSE)
     ELSE Returning(S, 0, FALSE)

\* the branch of handleAutoPunishment and handleKeywordDetection taken when
\* auto-punishment is off
KeywordLegacyPunish(S, meta, cfg) ==
  IF cfg.mute
    THEN IF meta.hasBotPermission
           THEN LET S1 == muteUser(S, meta, cfg.muteDuration)
                IN IF meta.muteOk /\ cfg.customMessage # ""
                     THEN Returning(sendNotice(S1, meta), 0, TRUE)
                     ELSE Returning(S1, 0, TRUE)
           ELSE Returning(S, 0, TRUE)
  ELSE IF cfg.customMessage # "" /\ meta.hasBotPermission
    THEN Returning(sendNotice(S, meta), 0, TRUE)
  ELSE Returning(S, 0, TRUE)

\* KeywordHandler.handleAutoPunishment: ok is the boolean it returns
KeywordHandler_handleAutoPunishment(S, meta, cfg, t, kw) ==
  IF ~cfg.enableAutoPunishment THEN KeywordLegacyPunish(S, meta, cfg)
  ELSE
    LET k == KeyOf(meta)
        before == queryUserWarningRecord(S, "keywordHandler", k, cfg, t)
        updated == updateUserPunishmentRecord(before, "keywordHandler", k, cfg, t,
                     Trigger(kw, "keyword", "warn", meta.content))
        after == queryUserWarningRecord(updated, "keywordHandler", k, cfg, t)
    IN KeywordPunish(after, meta, cfg, updated.ret, kw)

\* KeywordHandler.handleKeywordDetection: ok is the boolean it returns
handleKeywordDetection(S, meta, cfg, t) ==
  LET matchedKeyword == checkKeywords(meta.content, cfg.keywords)
  IN IF matchedKeyword = "" THEN Returning(S, 0, FALSE)
     ELSE
       LET found == Emit(S, "keyword", KeyOf(meta), 0, TRUE)
           recalled == IF cfg.recall THEN recallMessage(found, meta) ELSE found
           recallResult == cfg.recall /\ meta.recallOk
       IN IF ~meta.hasBotPermission THEN Returning(recalled, 0, recallResult)
          ELSE IF cfg.enableAutoPunishment
            THEN KeywordHandler_handleAutoPunishment(recalled, meta, cfg, t,
                                                     matchedKeyword)
          ELSE KeywordLegacyPunish(recalled, meta, cfg)

----------------------------------------------------------------------------
(* UrlHandler (url-handler.ts) *)

UrlMuteDuration_TimesCount(violationCount, cfg) ==
  IF violationCount = 2 THEN cfg.secondViolationMuteDuration
  ELSE IF violationCount >= cfg.maxViolationCount THEN LongMuteSeconds
  ELSE cfg.secondViolationMuteDuration * violationCount

\* muteDuration of UrlHandler.handleAutoPunishment for a count >= 2
UrlMuteDuration(violationCount, cfg) ==
  IF violationCount = 2 THEN cfg.secondViolationMuteDuration
  ELSE IF violationCount >= cfg.maxViolationCount THEN LongMuteSeconds
  ELSE cfg.secondViolationMuteDuration * (violationCount - 1)

\* whether UrlHandler.handleAutoPunishment tries to kick at this count
UrlTriesKick(violationCount, cfg) ==
  /\ violationCount > 2
  /\ violationCount >= cfg.maxViolationCount
  /\ cfg.kickOnMaxViolation

\* the write with which UrlHandler.handleAutoPunishment stores the action
\* taken: a further updateUserPunishmentRecord call
UrlRecordAction(S, meta, cfg, t, url, action) ==
  updateUserPunishmentRecord(S, "urlHandler", KeyOf(meta), cfg, t,
                             Trigger(url, "url", action, meta.content))

\* UrlHandler.handleAutoPunishment from the count on: the punishment
UrlPunish(S, meta, cfg, t, violationCount, url) ==
  IF violationCount = 1 THEN Returning(sendNotice(S, meta), 0, TRUE)
  ELSE IF violationCount >= 2
    THEN LET S1 == IF UrlTriesKick(violationCount, cfg)
                     THEN kickUser(S, meta) ELSE S
         IN IF UrlTriesKick(violationCount, cfg) /\ meta.kickOk
              THEN Returning(UrlRecordAction(S1, meta, cfg, t, url, "kick"), 0, TRUE)
            ELSE LET muteDuration == UrlMuteDuration(violationCount, cfg)
                     S2 == IF muteDuration > 0
                             THEN muteUser(S1, meta, muteDuration) ELSE S1
                 IN IF muteDuration > 0 /\ meta.muteOk
                      THEN Returning(
                             sendNotice(
                               UrlRecordAction(S2, meta, cfg, t, url, "mute"), meta),
                             0, TRUE)
                      ELSE Returning(S2, 0, FALSE)
  ELSE Returning(S, 0, FALSE)

\* UrlHandler.handleAutoPunishment: ok is the boolean it returns
UrlHandler_handleAutoPunishment(S, meta, cfg, t, url) ==
  LET k == KeyOf(meta)
      before == queryUserWarningRecord(S, "urlHandler", k, cfg, t)
      updated == updateUserPunishmentRecord(before, "urlHandler", k, cfg, t,
                   Trigger(url, "url", "warn", meta.content))
      after == queryUserWarningRecord(updated, "urlHandler", k, cfg, t)
      recalled == IF cfg.urlAction \in {"recall", "both"}
                    THEN recallMessage(after, meta) ELSE after
  IN IF ~meta.hasBotPermission THEN Returning(recalled, 0, TRUE)
     ELSE UrlPunish(recalled, meta, cfg, t, updated.ret, url)

\* UrlHandler.handleUrlDetection: ok is the boolean it returns
handleUrlDetection(S, meta, cfg, t) ==
  LET matchedUrl == UrlHandler_checkUrls(meta.content, cfg.urlWhitelist)
  IN IF ~cfg.detectUrls \/ matchedUrl = "" THEN Returning(S, 0, FALSE)
     ELSE IF meta.isUserAdmin THEN Returning(S, 0, FALSE)
     ELSE
       LET found == Emit(S, "url", KeyOf(meta), 0, TRUE)
       IN IF cfg.enableAutoPunishment
            THEN UrlHandler_handleAutoPunishment(found, meta, cfg, t, matchedUrl)
          ELSE
            LET recalled == IF cfg.urlAction \in {"recall", "both"}
                              THEN recallMessage(found, meta) ELSE found
            IN IF cfg.urlAction \in {"mute", "both"} /\ meta.hasBotPermission
                 THEN LET muted == muteUser(recalled, meta, cfg.urlMuteDuration)
                      IN IF meta.muteOk /\ cfg.urlCustomMessage # ""
                           THEN Returning(sendNotice(muted, meta), 0, TRUE)
                           ELSE Returning(muted, 0, TRUE)
               ELSE IF cfg.urlCustomMessage # "" /\ meta.hasBotPermission
                 THEN Returning(sendNotice(recalled, meta), 0, TRUE)
               ELSE Returning(recalled, 0, TRUE)

----------------------------------------------------------------------------
(* The middleware of apply (index.ts) *)

\* content.startsWith('keyword') and its variants
isKeywordCommand(content) == content = "keyword.warning.my"

\* keyword detection first; URL detection unless keyword detection
\* returned true; then next()
middleware(S, meta, cfg, t) ==
  IF isKeywordCommand(meta.content) THEN Emit(S, "next", KeyOf(meta), 0, TRUE)
  ELSE
    LET keywordResult == handleKeywordDetection(S, meta, cfg, t)
        detected == IF keywordResult.ok THEN keywordResult
                    ELSE handleUrlDetection(keywordResult, meta, cfg, t)
    IN Emit(detected, "next", KeyOf(meta), 0, TRUE)

----------------------------------------------------------------------------
(* The middleware of registerMessageHandler (handlers/message-handler) *)

\* no row of keyword_group_config for the guild
NoGroupConfig ==
  [present |-> FALSE, enabled |-> FALSE, keywords |-> <<>>,
   customMessage |-> "", urlWhitelist |-> <<>>, urlCustomMessage |-> ""]

\* the keyword_preset_package rows the middleware can import, by name
PresetNames == {"common", "spam"}

PresetKeywords(name) ==
  CASE name = "common" -> <<"ad", "scam">>
    [] name = "spam" -> <<"scam", "junk">>
    [] OTHER -> <<>>

\* [...new Set(list)]: the list without repeated elements, first kept
RECURSIVE Dedupe(_)
Dedupe(list) ==
  IF list = <<>> THEN <<>>
  ELSE LET front == Dedupe(SubSeq(list, 1, Len(list) - 1))
           last == list[Len(list)]
       IN IF last \in Range(front) THEN front ELSE Append(front, last)

\* the keywords after importing the presets named, in order
RECURSIVE ImportPresets(_, _)
ImportPresets(keywords, names) ==
  IF names = <<>> THEN keywords
  ELSE ImportPresets(
         IF Head(names) \in PresetNames
           THEN Dedupe(keywords \o PresetKeywords(Head(names)))
           ELSE keywords,
         Tail(names))

\* registerMessageHandler before it registers the middleware: the keyword
\* list it leaves in config.keywords
RegisteredKeywords(keywords) ==
  IF "kun" \in Range(keywords) THEN keywords ELSE Append(keywords, "kun")

\* content.startsWith('kw') and its variants
isKwCommand(content) == content = "kw.warn.my"

\* the URL branch of the middleware: recall, mute, record, notice
RegisteredUrlBranch(S, meta, cfg, t, matchedUrl, urlCustomMessage) ==
  LET found == Emit(S, "url", KeyOf(meta), 0, TRUE)
      recalled == IF cfg.urlAction \in {"recall", "both"}
                    THEN recallMessage(found, meta) ELSE found
      mutes == cfg.urlAction \in {"mute", "both"}
      muted == IF mutes
                 THEN muteUser(recalled, meta,
                               IF cfg.urlMuteDuration # 0
                                 THEN cfg.urlMuteDuration ELSE 300)
                 ELSE recalled
      updated == updateUserPunishmentRecord(muted, "messageHandler", KeyOf(meta),
                   cfg, t,
                   Trigger(matchedUrl, "url", IF mutes THEN "mute" ELSE "warn",
                           meta.content))
  IN IF urlCustomMessage # "" THEN sendNotice(updated, meta) ELSE updated

\* the auto-enable step: create the override of a pre-enabled guild that
\* has none, and import the default presets into it
RegisteredAutoEnable(S, meta, cfg, groupConfig) ==
  LET g == meta.guildId
      newConfig == [present |-> TRUE, enabled |-> TRUE, keywords |-> <<>>,
                    customMessage |-> cfg.customMessage, urlWhitelist |-> <<>>,
                    urlCustomMessage |-> cfg.urlCustomMessage]
  IN IF g \in cfg.enabledGroups /\ ~groupConfig.present
       THEN IF cfg.autoImportPresets /\ cfg.defaultPresets # <<>>
              THEN [S EXCEPT !.groupConfig[g] =
                      [newConfig EXCEPT !.keywords =
                         ImportPresets(<<>>, cfg.defaultPresets)]]
              ELSE [S EXCEPT !.groupConfig[g] = newConfig]
       ELSE S

\* the middleware from the global URL check on: S is the state so far and
\* handled is messageHandled
RegisteredGlobalUrl(S, meta, cfg, t, handled) ==
  LET globalUrl == IF cfg.detectUrls /\ ~handled
                     THEN KeywordHandler_checkUrls(meta.content, cfg.urlWhitelist)
                     ELSE ""
  IN Emit(IF globalUrl # ""
            THEN RegisteredUrlBranch(S, meta, cfg, t, globalUrl,
                                     cfg.urlCustomMessage)
            ELSE S,
          "next", KeyOf(meta), 0, TRUE)

\* the middleware from the auto-enable step on; groupConfig is the override
\* read before the group checks
RegisteredEnable(S, meta, cfg, t, handled, groupConfig) ==
  RegisteredGlobalUrl(
    IF cfg.enableGroupSpecificConfig
      THEN RegisteredAutoEnable(S, meta, cfg, groupConfig) ELSE S,
    meta, cfg, t, handled)

\* the middleware from the group URL check on: S is the state after the
\* detection with the group keywords
RegisteredGroupUrl(S, meta, cfg, t, handled, groupConfig) ==
  LET groupUrl == IF cfg.detectUrls /\ ~handled
                    THEN KeywordHandler_checkUrls(meta.content,
                                                  groupConfig.urlWhitelist)
                    ELSE ""
  IN IF groupUrl # ""
       THEN RegisteredEnable(
              RegisteredUrlBranch(S, meta, cfg, t, groupUrl,
                IF groupConfig.urlCustomMessage # ""
                  THEN groupConfig.urlCustomMessage ELSE cfg.urlCustomMessage),
              meta, cfg, t, TRUE, groupConfig)
       ELSE RegisteredEnable(S, meta, cfg, t, handled, groupConfig)

\* the detection with the group keywords: S is the state after the
\* detection with the global keywords, handled its result
RegisteredGroupKeywords(S, meta, cfg, t, handled, groupConfig) ==
  LET group == handleKeywordDetection(S, meta,
                 [cfg EXCEPT
                    !.keywords = groupConfig.keywords,
                    !.customMessage =
                       IF groupConfig.customMessage # ""
                         THEN groupConfig.customMessage ELSE @],
                 t)
  IN RegisteredGroupUrl(group, meta, cfg, t, handled \/ group.ok, groupConfig)

\* the middleware after the detection with the global keywords: S is the
\* state that detection left and S.ok its result
RegisteredGroup(S, meta, cfg, t) ==
  LET groupConfig == S.groupConfig[meta.guildId]
  IN IF cfg.enableGroupSpecificConfig /\ groupConfig.present /\ groupConfig.enabled
       THEN RegisteredGroupKeywords(S, meta, cfg, t, S.ok, groupConfig)
       ELSE RegisteredEnable(S, meta, cfg, t, S.ok, groupConfig)

\* the middleware registerMessageHandler registers
registeredMiddleware(S, meta, cfg, t) ==
  IF isKwCommand(meta.content) THEN Emit(S, "next", KeyOf(meta), 0, TRUE)
  ELSE IF cfg.skipAdminCheck /\ meta.isUserAdmin
    THEN Emit(S, "next", KeyOf(meta), 0, TRUE)
  ELSE IF ~meta.hasBotPermission THEN Emit(S, "next", KeyOf(meta), 0, TRUE)
  ELSE RegisteredGroup(IF cfg.keywords # <<>>
                         THEN handleKeywordDetection(S, meta, cfg, t)
                         ELSE Returning(S, 0, FALSE),
                       meta, cfg, t)

----------------------------------------------------------------------------
(* Configuration *)

DefaultConfig ==
  [keywords |-> <<"spam">>,
   recall |-> TRUE,
   mute |-> TRUE,
   muteDuration |-> 300,
   customMessage |-> "notice",
   detectUrls |-> TRUE,
   urlWhitelist |-> <<>>,
   urlAction |-> "both",
   urlMuteDuration |-> 300,
   urlCustomMessage |-> "url notice",
   enableAutoPunishment |-> TRUE,
   secondViolationMuteDuration |-> 60,
   maxViolationCount |-> 3,
   kickOnMaxViolation |-> TRUE,
   punishmentResetHours |-> 1,
   enableGroupSpecificConfig |-> FALSE,
   enabledGroups |-> {},
   defaultPresets |-> <<"common">>,
   autoImportPresets |-> TRUE,
   skipAdminCheck |-> FALSE]

\* the range of maxViolationCount in ConfigSchema
MaxViolationCounts == 2..10

TheKey == <<"u1", "g1">>

NoMeta == Meta("u1", "g1", "", FALSE, FALSE, FALSE, FALSE, FALSE)

LedgerTriggers ==
  {Trigger("spam", "keyword", "warn", "this is spam"),
   Trigger("evil.example", "url", "mute", "see evil.example")}

Current == Thread(store, cache, appended, dbGroupConfig, <<>>)

\* the variables an operation on the tables leaves as its result
Becomes(S) ==
  /\ store' = S.store
  /\ cache' = S.cache
  /\ appended' = S.appended
  /\ dbGroupConfig' = S.groupConfig
  /\ calls' = S.calls
  /\ UNCHANGED <<resolveVars, probeVars>>

----------------------------------------------------------------------------
(* Functions applied on their own, and the middleware step by step *)

\* A text under a function is a sequence of characters

\* String.prototype.toLowerCase, on the characters used
Lower(c) == IF c = "A" THEN "a" ELSE IF c = "D" THEN "d" ELSE c

toLowerCase(text) == [i \in 1..Len(text) |-> Lower(text[i])]

\* String.prototype.includes
includes(text, part) ==
  \E i \in 0..(Len(text) - Len(part)) : SubSeq(text, i + 1, i + Len(part)) = part

\* String.prototype.endsWith
endsWith(text, part) ==
  /\ Len(part) <= Len(text)
  /\ SubSeq(text, Len(text) - Len(part) + 1, Len(text)) = part

\* new RegExp(keyword, flags) throws: flags other than those RegExp knows,
\* or a group that is opened and never closed
RegExpThrows(keyword, flags) ==
  \/ flags \notin {"i", "g"}
  \/ \E i \in 1..Len(keyword) : keyword[i] = "("

\* regex.test(message) for a pattern of literal characters and dots
RegExpTest(keyword, flags, message) ==
  \E at \in 0..(Len(message) - Len(keyword)) :
    \A j \in 1..Len(keyword) :
      \/ keyword[j] = "."
      \/ IF flags = "i" THEN Lower(keyword[j]) = Lower(message[at + j])
         ELSE keyword[j] = message[at + j]

\* what a matcher returns: the rule that matched, if one did
Matched(keyword) == [matched |-> TRUE, keyword |-> keyword, threw |-> FALSE]

NoMatch == [matched |-> FALSE, keyword |-> <<>>, threw |-> FALSE]

Thrown == [matched |-> FALSE, keyword |-> <<>>, threw |-> TRUE]

RuleOutcome_Uncaught(message, keyword, useRegex, regexFlags) ==
  LET flags == IF regexFlags # "" THEN regexFlags ELSE "i"
  IN IF useRegex /\ RegExpThrows(keyword, flags) THEN "throw"
     ELSE IF useRegex
       THEN IF RegExpTest(keyword, flags, message) THEN "match" ELSE "miss"
     ELSE IF includes(toLowerCase(message), toLowerCase(keyword))
       THEN "match" ELSE "miss"

\* the body of the loop of KeywordHandler.checkKeywords for one keyword:
\* the try block and, when new RegExp throws, the catch block
RuleOutcome(message, keyword, useRegex, regexFlags) ==
  LET flags == IF regexFlags # "" THEN regexFlags ELSE "i"
      lowerMessage == toLowerCase(message)
      lowerKeyword == toLowerCase(keyword)
  IN IF useRegex
       THEN IF RegExpThrows(keyword, flags)
              THEN IF includes(lowerMessage, lowerKeyword) THEN "match" ELSE "miss"
            ELSE IF RegExpTest(keyword, flags, message) THEN "match" ELSE "miss"
     ELSE IF includes(lowerMessage, lowerKeyword) THEN "match" ELSE "miss"

\* the loop of KeywordHandler.checkKeywords from the i-th keyword on
RECURSIVE ScanKeywords(_, _, _, _, _)
ScanKeywords(message, keywords, i, useRegex, regexFlags) ==
  IF i > Len(keywords) THEN NoMatch
  ELSE IF keywords[i] = <<>>
    THEN ScanKeywords(message, keywords, i + 1, useRegex, regexFlags)
  ELSE LET outcome == RuleOutcome(message, keywords[i], useRegex, regexFlags)
       IN IF outcome = "match" THEN Matched(keywords[i])
          ELSE IF outcome = "throw" THEN Thrown
          ELSE ScanKeywords(message, keywords, i + 1, useRegex, regexFlags)

Reversed(seq) == [i \in 1..Len(seq) |-> seq[Len(seq) + 1 - i]]

KeywordHandler_checkKeywords_Last(message, keywords, useRegex, regexFlags) ==
  ScanKeywords(message, Reversed(keywords), 1, useRegex, regexFlags)

\* KeywordHandler.checkKeywords(message, keywords, config)
KeywordHandler_checkKeywords(message, keywords, useRegex, regexFlags) ==
  ScanKeywords(message, keywords, 1, useRegex, regexFlags)

\* the loop of detectKeywords up to the keyword it finds
RECURSIVE detectKeywords(_, _, _)
detectKeywords(content, keywords, i) ==
  IF i > Len(keywords) THEN NoMatch
  ELSE IF includes(content, keywords[i]) THEN Matched(keywords[i])
  ELSE detectKeywords(content, keywords, i + 1)

\* the built-in safeWhitelist of UrlHandler.checkUrls, one of its entries
SafeWhitelist == << <<"q", "q", ".", "c", "o", "m">> >>

\* combinedWhitelist.some(...) of UrlHandler.checkUrls for a host name
UrlHandler_isWhitelisted(hostname, whitelist) ==
  LET combinedWhitelist == whitelist \o SafeWhitelist
  IN \E i \in 1..Len(combinedWhitelist) :
       LET domain == combinedWhitelist[i]
       IN \/ hostname = domain
          \/ endsWith(hostname, <<".">> \o domain)
          \/ includes(domain, hostname)

\* the whitelist loop of KeywordHandler.checkUrls for a domain
KeywordHandler_isWhitelisted(domain, whitelist) ==
  \E i \in 1..Len(whitelist) :
    includes(domain, whitelist[i]) \/ domain = whitelist[i]

\* the markers of media messages: a CQ code of an image with its file, and
\* the placeholder getMessageContent puts for an image element (tu, pian
\* stand for its two characters)
CqImagePrefix == <<"[", "C", "Q", ":", "i", "m", "a", "g", "e", ",">>

CqImage == CqImagePrefix \o <<"a", "d", "]">>

ImagePlaceholder == <<"[", "tu", "pian", "]">>

\* UrlHandler.isMediaMessage, for the markers above
isMediaMessage(message) ==
  includes(message, CqImagePrefix) \/ includes(message, ImagePlaceholder)

\* the loop over the URLs of UrlHandler.checkUrls; urls are the host names of
\* what the URL patterns find in the message, in match order
RECURSIVE UrlHandler_scan(_, _, _)
UrlHandler_scan(urls, i, whitelist) ==
  IF i > Len(urls) THEN NoMatch
  ELSE IF UrlHandler_isWhitelisted(urls[i], whitelist)
       THEN UrlHandler_scan(urls, i + 1, whitelist)
       ELSE Matched(urls[i])

UrlHandler_checkUrlsIn(message, urls, whitelist) ==
  IF message = <<>> THEN NoMatch
  ELSE IF isMediaMessage(message) THEN NoMatch
  ELSE UrlHandler_scan(urls, 1, whitelist)

\* the loop over the URLs of KeywordHandler.checkUrls; urls as above
RECURSIVE KeywordHandler_scan(_, _, _)
KeywordHandler_scan(urls, i, whitelist) ==
  IF i > Len(urls) THEN NoMatch
  ELSE IF KeywordHandler_isWhitelisted(urls[i], whitelist)
       THEN KeywordHandler_scan(urls, i + 1, whitelist)
       ELSE Matched(urls[i])

KeywordHandler_checkUrlsIn(message, urls, whitelist) ==
  IF message = <<>> THEN NoMatch
  ELSE KeywordHandler_scan(urls, 1, whitelist)

NoProbe == [fn |-> ""]

NoAnswer == [done |-> FALSE, result |-> NoMatch]

Applied(r) == [done |-> TRUE, result |-> r]

\* one invocation of a message middleware: where it is, the call it last
\* awaited, how often it has called next(), whether an exception left it,
\* the call that threw, the presets read so far
Invocation(which, at, site, nexts) ==
  [which |-> which, pc |-> at, site |-> site, nexts |-> nexts,
   escaped |-> FALSE, threw |-> "", presets |-> 0]

NoInvocation == Invocation("", "idle", "start", 0)

Middlewares ==
  {"apply", "registerMessageHandler", "registerMessageHandler (earlier)"}

\* the middleware of apply: what can follow the call last awaited;
\* "return" is a return next() inside the try block, "end" leaves the block
ApplyFollows(site) ==
  CASE site = "start" -> {"handleKeywordDetection"}
    [] site = "handleKeywordDetection" -> {"return", "handleUrlDetection"}
    [] OTHER -> {"end"}

\* the URL branch at the end of the middleware of registerMessageHandler
UrlBranch == {"recallMessage", "muteUser", "updateUserPunishmentRecord", "end"}

\* the middleware of registerMessageHandler
RegisteredFollows(site) ==
  CASE site = "start" -> {"isAdminOrOwner", "checkBotPermission"}
    [] site = "isAdminOrOwner" -> {"return", "checkBotPermission"}
    [] site = "checkBotPermission" ->
         {"return", "handleKeywordDetection", "getGroupConfig"} \cup UrlBranch
    [] site = "handleKeywordDetection" -> {"getGroupConfig"} \cup UrlBranch
    [] site = "getGroupConfig" ->
         {"handleKeywordDetection (group)", "createGroupConfig"} \cup UrlBranch
    [] site = "handleKeywordDetection (group)" ->
         {"recallMessage (group)", "muteUser (group)",
          "updateUserPunishmentRecord (group)"} \cup UrlBranch
    [] site = "recallMessage (group)" ->
         {"muteUser (group)", "updateUserPunishmentRecord (group)"}
    [] site = "muteUser (group)" -> {"updateUserPunishmentRecord (group)"}
    [] site = "updateUserPunishmentRecord (group)" -> {"sendNotice (group)", "end"}
    [] site = "createGroupConfig" -> {"getPresetPackage"} \cup UrlBranch
    [] site = "getPresetPackage" -> {"getPresetPackage", "updateGroupConfig"}
    [] site = "updateGroupConfig" -> UrlBranch
    [] site = "recallMessage" -> {"muteUser", "updateUserPunishmentRecord"}
    [] site = "muteUser" -> {"updateUserPunishmentRecord"}
    [] site = "updateUserPunishmentRecord" -> {"sendNotice", "end"}
    [] OTHER -> {"end"}

\* the earlier middleware of registerMessageHandler
EarlierFollows(site) ==
  CASE site = "start" -> {"getGroupConfig", "detectKeywords"}
    [] site = "getGroupConfig" ->
         {"detectKeywords (group)", "createGroupConfig", "detectKeywords"}
    [] site = "detectKeywords (group)" -> {"return", "detectUrls (group)"}
    [] site = "detectUrls (group)" -> {"return"}
    [] site = "createGroupConfig" -> {"getPresetPackage", "detectKeywords"}
    [] site = "getPresetPackage" -> {"getPresetPackage", "updateGroupConfig"}
    [] site = "updateGroupConfig" -> {"detectKeywords"}
    [] site = "detectKeywords" -> {"return", "detectUrls", "end"}
    [] site = "detectUrls" -> {"return", "end"}
    [] OTHER -> {"end"}

Follows(m) ==
  CASE m.which = "apply" -> ApplyFollows(m.site)
    [] m.which = "registerMessageHandler" -> RegisteredFollows(m.site)
    [] OTHER -> EarlierFollows(m.site)

\* return next()
ReturnNext(m) == [m EXCEPT !.pc = "done", !.nexts = @ + 1]

Caught_Rethrown(m) == [m EXCEPT !.pc = "done", !.escaped = TRUE]

\* catch (error) { logger.error(...) }: control goes on after the try block
Caught(m) == [m EXCEPT !.pc = "end"]

----------------------------------------------------------------------------
(* GroupConfigManager.  A call of getMergedConfig runs from one database    *)
(* await to the next without interruption; a run is the tables, the cache,  *)
(* the locals of the call and the await it has reached.                     *)

\* the preset packages importPresetKeywords knows, by name
GcmPresetNames == {"common", "spam", "scam"}

GcmPresetKeywords(name) ==
  CASE name = "common" -> <<"c1", "c2">>
    [] name = "spam" -> <<"s1", "s2">>
    [] name = "scam" -> <<"f1">>
    [] OTHER -> <<>>

\* the config getMergedConfig passes to updateGroupConfig for a pre-enabled
\* guild that has no override
SynthesizedConfig ==
  [present |-> TRUE, enabled |-> TRUE, keywords |-> <<>>,
   customMessage |-> "", urlWhitelist |-> <<>>, urlCustomMessage |-> ""]

\* the object addKeywordsBatch makes when the guild has no override
NewBatchConfig == SynthesizedConfig

\* the locals of a call that has not started
NoLocal ==
  [guild |-> "", phase |-> "", rest |-> <<>>, payload |-> NoGroupConfig,
   existing |-> FALSE, synthesized |-> FALSE, fresh |-> FALSE,
   result |-> DefaultConfig, used |-> NoGroupConfig,
   stored |-> NoGroupConfig, global |-> DefaultConfig]

Run(t, c, l, at) == [table |-> t, cache |-> c, l |-> l, pc |-> at]

UsesOverride_AnyStored(groupConfig) == groupConfig.present

\* the negation of !groupConfig || !groupConfig.enabled
UsesOverride(groupConfig) == groupConfig.present /\ groupConfig.enabled

\* mergedConfig.keywords
MergedKeywords(global, groupConfig) ==
  IF Len(groupConfig.keywords) > 0 THEN groupConfig.keywords ELSE global.keywords

\* the configuration getMergedConfig returns for the override it ends with
MergedConfig(global, groupConfig) ==
  IF ~UsesOverride(groupConfig) THEN global
  ELSE [global EXCEPT
          !.keywords = MergedKeywords(global, groupConfig),
          !.customMessage =
             IF groupConfig.customMessage # "" THEN groupConfig.customMessage ELSE @,
          !.urlWhitelist =
             IF Len(groupConfig.urlWhitelist) > 0 THEN groupConfig.urlWhitelist ELSE @,
          !.urlCustomMessage =
             IF groupConfig.urlCustomMessage # ""
               THEN groupConfig.urlCustomMessage ELSE @]

MergeInto_Global(R, merged) ==
  [R EXCEPT !.l.result = merged, !.l.global = merged]

\* const mergedConfig = { ...globalConfig }: the fields of the override are
\* assigned to the copy, and globalConfig (l.global, the object the caller
\* passed) keeps its own
MergeInto(R, merged) == [R EXCEPT !.l.result = merged]

\* getMergedConfig returns: groupConfig is the override it ends with
Return(R, cfg, groupConfig) ==
  [MergeInto(R, MergedConfig(cfg, groupConfig)) EXCEPT
            !.l.used = groupConfig,
            !.l.stored = R.table[R.l.guild],
            !.pc = "done"]

\* the last getGroupConfig of getMergedConfig, up to its database.get
FinalGet(R, cfg) ==
  IF R.cache[R.l.guild].present
    THEN Return(R, cfg, R.cache[R.l.guild])
    ELSE [R EXCEPT !.pc = "get4"]

\* the loop over the default presets: the next importPresetKeywords call
NextImport(R, cfg) ==
  IF R.l.rest = <<>> THEN FinalGet(R, cfg) ELSE [R EXCEPT !.pc = "import"]

\* updateGroupConfig up to its database call: the getGroupConfig for the
\* existing override and the data to write
updateGroupConfig(R, groupConfig) ==
  IF R.cache[R.l.guild].present
    THEN [R EXCEPT !.l.payload = groupConfig, !.l.existing = TRUE,
                   !.pc = "write"]
    ELSE [R EXCEPT !.l.payload = groupConfig, !.pc = "upd_get"]

\* getMergedConfig after updateGroupConfig has returned
AfterUpdate(R, cfg) ==
  IF R.l.phase = "synthesize"
    THEN NextImport(
           [R EXCEPT !.l.phase = "import",
                     !.l.rest = IF cfg.autoImportPresets THEN cfg.defaultPresets
                                ELSE <<>>],
           cfg)
    ELSE NextImport(R, cfg)

NeedsSynthesis_Always(isPreEnabled, groupConfig) == isPreEnabled

\* isPreEnabled && !groupConfig
NeedsSynthesis(isPreEnabled, groupConfig) == isPreEnabled /\ ~groupConfig.present

\* getMergedConfig after its first getGroupConfig
AfterFirstGet(R, cfg, groupConfig) ==
  IF NeedsSynthesis(R.l.guild \in cfg.enabledGroups, groupConfig)
    THEN updateGroupConfig(
           [R EXCEPT !.l.synthesized = TRUE, !.l.phase = "synthesize"],
           SynthesizedConfig)
    ELSE Return(R, cfg, groupConfig)

\* getMergedConfig up to its first database.get
getMergedConfig(R, cfg) ==
  IF ~cfg.enableGroupSpecificConfig THEN Return(R, cfg, NoGroupConfig)
  ELSE IF R.cache[R.l.guild].present
    THEN AfterFirstGet(R, cfg, R.cache[R.l.guild])
    ELSE [R EXCEPT !.pc = "get1"]

\* the database.get of getGroupConfig: a row found is put in the cache
getGroupConfig(R) ==
  IF R.table[R.l.guild].present
    THEN [R EXCEPT !.cache[R.l.guild] = R.table[R.l.guild]]
    ELSE R

\* the loop of addKeywordsBatch: each keyword not yet included is pushed
RECURSIVE AddKeywords(_, _)
AddKeywords(keywords, added) ==
  IF added = <<>> THEN keywords
  ELSE AddKeywords(IF Head(added) \in Range(keywords) THEN keywords
                   ELSE Append(keywords, Head(added)),
                   Tail(added))

\* addKeywordsBatch from its loop on: cached tells whether groupConfig is
\* the object in the cache, which the loop then changes in place
addKeywordsBatch(R, cfg, groupConfig, cached, keywords) ==
  LET added == AddKeywords(groupConfig.keywords, keywords)
      filled == [groupConfig EXCEPT !.keywords = added]
      after == IF cached THEN [R EXCEPT !.cache[R.l.guild] = filled] ELSE R
  IN IF added # groupConfig.keywords
       THEN updateGroupConfig(after, filled)
       ELSE NextImport(after, cfg)

\* importPresetKeywords for the next default preset, up to the database.get
\* of its getGroupConfig
importPresetKeywords(R, cfg) ==
  LET presetName == Head(R.l.rest)
      next == [R EXCEPT !.l.rest = Tail(@)]
  IN IF presetName \notin GcmPresetNames THEN NextImport(next, cfg)
     ELSE IF next.cache[next.l.guild].present
       THEN addKeywordsBatch(next, cfg, next.cache[next.l.guild], TRUE,
                             GcmPresetKeywords(presetName))
     ELSE [next EXCEPT !.l.rest = R.l.rest, !.pc = "imp_get"]

\* the database.get of the getGroupConfig of addKeywordsBatch, and on
ImportGot(R, cfg) ==
  LET got == getGroupConfig(R)
      next == [got EXCEPT !.l.rest = Tail(@)]
      keywords == GcmPresetKeywords(Head(R.l.rest))
  IN IF R.table[R.l.guild].present
       THEN addKeywordsBatch(next, cfg, next.cache[next.l.guild], TRUE, keywords)
       ELSE addKeywordsBatch(next, cfg, NewBatchConfig, FALSE, keywords)

\* the database.get of the getGroupConfig of updateGroupConfig
UpdateGot(R) ==
  [getGroupConfig(R) EXCEPT !.l.existing = R.table[R.l.guild].present,
                            !.pc = "write"]

\* database.set('keyword_group_configs', {guildId}, updateData)
SetGroupRow(row, data) == IF row.present THEN data ELSE row

\* the database call of updateGroupConfig: set for an existing override,
\* create otherwise; a create the unique guildId rejects is caught and
\* updateGroupConfig returns false without reloading the cache
WriteGroupConfig(R, cfg) ==
  LET g == R.l.guild
  IN IF R.l.existing
       THEN [R EXCEPT !.table[g] = SetGroupRow(@, R.l.payload),
                      !.l.existing = FALSE, !.pc = "reload"]
     ELSE IF R.table[g].present
       THEN AfterUpdate(R, cfg)
     ELSE [R EXCEPT !.table[g] = R.l.payload, !.pc = "reload"]

\* loadGroupConfigsFromDatabase: the cache is cleared and filled with the
\* rows of the table
loadGroupConfigsFromDatabase(R) == [R EXCEPT !.cache = R.table]

----------------------------------------------------------------------------
(* GroupConfigManager, one keyword operation at a time.  An operation runs  *)
(* from its getGroupConfig to its return; thrown tells whether the          *)
(* database.create or database.set of its updateGroupConfig throws.         *)

\* the manager as an operation on the guild finds it
Manager(table, c, g) == Run(table, c, [NoLocal EXCEPT !.guild = g], "idle")

\* the manager as an operation leaves it, what the operation returned, and
\* whether it got as far as the database.create or database.set
Outcome(R, ret) ==
  [table |-> R.table, cache |-> R.cache, ret |-> ret, attempted |-> FALSE]

\* getGroupConfig(guildId) from its first line: the cached object if there
\* is one, otherwise the row database.get finds, which is then cached
GroupConfigManager_getGroupConfig(R) ==
  IF R.cache[R.l.guild].present THEN R ELSE getGroupConfig(R)

\* what getGroupConfig(guildId) returns: NoGroupConfig stands for null
GroupConfigOf(table, c, g) == IF c[g].present THEN c[g] ELSE table[g]

\* updateGroupConfig(guildId, groupConfig) with a whole override: the
\* getGroupConfig for the existing one, the write, the reload of the cache.
\* A write that throws is caught: false is returned and nothing reloaded.
\* keywords and urlWhitelist are written with JSON.stringify and read with
\* JSON.parse, which gives back the same list of strings
GroupConfigManager_updateGroupConfig(R, groupConfig, thrown) ==
  LET got == GroupConfigManager_getGroupConfig(R)
  IN [IF thrown THEN Outcome(got, FALSE)
      ELSE Outcome(loadGroupConfigsFromDatabase(
                     [got EXCEPT !.table[R.l.guild] = groupConfig]),
                   TRUE)
       EXCEPT !.attempted = TRUE]

deleteGroupConfig_StoreOnly(R, thrown) ==
  IF thrown THEN Outcome(R, FALSE)
  ELSE Outcome([R EXCEPT !.table[R.l.guild] = NoGroupConfig], TRUE)

\* deleteGroupConfig(guildId): the row is removed, then the cached object;
\* a database.remove that throws is caught and false returned
deleteGroupConfig(R, thrown) ==
  IF thrown THEN Outcome(R, FALSE)
  ELSE Outcome([R EXCEPT !.table[R.l.guild] = NoGroupConfig,
                         !.cache[R.l.guild] = NoGroupConfig],
               TRUE)

\* addKeyword: the keyword is pushed onto the keywords of the object
\* getGroupConfig returned, which is the object in the cache
addKeyword(R, keyword, thrown) ==
  LET g == R.l.guild
      got == GroupConfigManager_getGroupConfig(R)
      groupConfig == got.cache[g]
      pushed == [groupConfig EXCEPT !.keywords = Append(@, keyword)]
  IN IF ~groupConfig.present
       THEN GroupConfigManager_updateGroupConfig(
              got, [NewBatchConfig EXCEPT !.keywords = <<keyword>>], thrown)
     ELSE IF keyword \notin Range(groupConfig.keywords)
       THEN GroupConfigManager_updateGroupConfig(
              [got EXCEPT !.cache[g] = pushed], pushed, thrown)
     ELSE Outcome(got, FALSE)

\* keywords.splice(keywords.indexOf(keyword), 1)
RECURSIVE Spliced(_, _)
Spliced(keywords, keyword) ==
  IF keywords = <<>> THEN <<>>
  ELSE IF Head(keywords) = keyword THEN Tail(keywords)
  ELSE <<Head(keywords)>> \o Spliced(Tail(keywords), keyword)

\* removeKeyword: the keyword is spliced out of the keywords of the object
\* in the cache
removeKeyword(R, keyword, thrown) ==
  LET g == R.l.guild
      got == GroupConfigManager_getGroupConfig(R)
      groupConfig == got.cache[g]
      spliced == [groupConfig EXCEPT !.keywords = Spliced(@, keyword)]
  IN IF ~groupConfig.present THEN Outcome(got, FALSE)
     ELSE IF keyword \in Range(groupConfig.keywords)
       THEN GroupConfigManager_updateGroupConfig(
              [got EXCEPT !.cache[g] = spliced], spliced, thrown)
     ELSE Outcome(got, FALSE)

\* keyword.trim(), on the keywords the operations are given
trim(keyword) ==
  CASE keyword = " ad" -> "ad"
    [] keyword = " " -> ""
    [] OTHER -> keyword

\* the keywords a batch loop goes through: blank ones are skipped, the
\* others trimmed
RECURSIVE Trimmed(_)
Trimmed(keywords) ==
  IF keywords = <<>> THEN <<>>
  ELSE IF trim(Head(keywords)) = "" THEN Trimmed(Tail(keywords))
  ELSE <<trim(Head(keywords))>> \o Trimmed(Tail(keywords))

\* result.success of addKeywordsBatch: the keywords its loop pushed
RECURSIVE BatchSuccess(_, _)
BatchSuccess(keywords, added) ==
  IF added = <<>> THEN <<>>
  ELSE IF Head(added) \in Range(keywords)
    THEN BatchSuccess(keywords, Tail(added))
  ELSE <<Head(added)>> \o
       BatchSuccess(Append(keywords, Head(added)), Tail(added))

\* result.duplicates of addKeywordsBatch: the keywords its loop found
RECURSIVE BatchDuplicates(_, _)
BatchDuplicates(keywords, added) ==
  IF added = <<>> THEN <<>>
  ELSE IF Head(added) \in Range(keywords)
    THEN <<Head(added)>> \o BatchDuplicates(keywords, Tail(added))
  ELSE BatchDuplicates(Append(keywords, Head(added)), Tail(added))

\* what the batch operations return
BatchResult(success, other, total) ==
  [success |-> success, other |-> other, total |-> total]

\* addKeywordsBatch as a whole: what updateGroupConfig returns is dropped
GroupConfigManager_addKeywordsBatch(R, keywords, thrown) ==
  LET g == R.l.guild
      got == GroupConfigManager_getGroupConfig(R)
      cached == got.cache[g].present
      groupConfig == IF cached THEN got.cache[g] ELSE NewBatchConfig
      added == Trimmed(keywords)
      filled == [groupConfig EXCEPT !.keywords = AddKeywords(@, added)]
      after == IF cached THEN [got EXCEPT !.cache[g] = filled] ELSE got
      result == BatchResult(BatchSuccess(groupConfig.keywords, added),
                            BatchDuplicates(groupConfig.keywords, added),
                            Len(keywords))
  IN IF keywords = <<>> THEN Outcome(R, BatchResult(<<>>, <<>>, 0))
     ELSE IF result.success # <<>>
       THEN [GroupConfigManager_updateGroupConfig(after, filled, thrown)
               EXCEPT !.ret = result]
     ELSE Outcome(after, result)

\* importPresetKeywords as a whole
GroupConfigManager_importPresetKeywords(R, presetName, thrown) ==
  IF presetName \notin GcmPresetNames
    THEN Outcome(R, BatchResult(<<>>, <<>>, 0))
    ELSE GroupConfigManager_addKeywordsBatch(
           R, GcmPresetKeywords(presetName), thrown)

\* the loop of removeKeywordsBatch: each keyword found is spliced out
RECURSIVE RemoveKeywords(_, _)
RemoveKeywords(keywords, removed) ==
  IF removed = <<>> THEN keywords
  ELSE RemoveKeywords(Spliced(keywords, Head(removed)), Tail(removed))

\* result.success of removeKeywordsBatch
RECURSIVE RemoveSuccess(_, _)
RemoveSuccess(keywords, removed) ==
  IF removed = <<>> THEN <<>>
  ELSE IF Head(removed) \in Range(keywords)
    THEN <<Head(removed)>> \o
         RemoveSuccess(Spliced(keywords, Head(removed)), Tail(removed))
  ELSE RemoveSuccess(keywords, Tail(removed))

\* result.notFound of removeKeywordsBatch
RECURSIVE RemoveNotFound(_, _)
RemoveNotFound(keywords, removed) ==
  IF removed = <<>> THEN <<>>
  ELSE IF Head(removed) \in Range(keywords)
    THEN RemoveNotFound(Spliced(keywords, Head(removed)), Tail(removed))
  ELSE <<Head(removed)>> \o RemoveNotFound(keywords, Tail(removed))

\* removeKeywordsBatch as a whole
removeKeywordsBatch(R, keywords, thrown) ==
  LET g == R.l.guild
      got == GroupConfigManager_getGroupConfig(R)
      groupConfig == got.cache[g]
      removed == Trimmed(keywords)
      left == [groupConfig EXCEPT !.keywords = RemoveKeywords(@, removed)]
      result == BatchResult(RemoveSuccess(groupConfig.keywords, removed),
                            RemoveNotFound(groupConfig.keywords, removed),
                            Len(keywords))
  IN IF keywords = <<>> THEN Outcome(R, BatchResult(<<>>, <<>>, 0))
     ELSE IF ~groupConfig.present
       THEN Outcome(got, BatchResult(<<>>, keywords, Len(keywords)))
     ELSE IF result.success # <<>>
       THEN [GroupConfigManager_updateGroupConfig(
               [got EXCEPT !.cache[g] = left], left, thrown)
               EXCEPT !.ret = result]
     ELSE Outcome(got, result)

\* removePresetKeywords as a whole
removePresetKeywords(R, presetName, thrown) ==
  IF presetName \notin GcmPresetNames
    THEN Outcome(R, BatchResult(<<>>, <<>>, 0))
    ELSE removeKeywordsBatch(R, GcmPresetKeywords(presetName), thrown)

importpreset_Concat(originalKeywords, presetKeywords) ==
  originalKeywords \o presetKeywords

\* kwgroup importpreset: the keywords it passes to updateGroupConfig
importpreset(originalKeywords, presetKeywords) ==
  Dedupe(originalKeywords \o presetKeywords)

----------------------------------------------------------------------------
(* The ledger, one operation at a time *)

InitTables ==
  /\ store = [k \in Keys |-> NoRow]
  /\ cache = [w \in Managers |-> [k \in Keys |-> NoCache]]
  /\ now = StartHour
  /\ dbGroupConfig = [g \in Guilds |-> NoGroupConfig]
  /\ session = NoMeta
  /\ calls = <<>>
  /\ appended = [k \in Keys |-> <<>>]
  /\ pc = [p \in Procs |-> "idle"]
  /\ local = [p \in Procs |-> [t |-> 0, record |-> NoRow]]
  /\ started = 0
  /\ gcTable = [g \in Guilds |-> NoGroupConfig]
  /\ gcCache = [g \in Guilds |-> NoGroupConfig]
  /\ mpc = [p \in Procs |-> "idle"]
  /\ mlocal = [p \in Procs |-> NoLocal]

\* no function applied on its own, no middleware invocation under way
InitCommon ==
  /\ InitTables
  /\ probe = NoProbe
  /\ answer = NoAnswer
  /\ mw = NoInvocation

Init ==
  /\ InitCommon
  /\ config \in {[DefaultConfig EXCEPT !.punishmentResetHours = h] : h \in {1, 2}}

\* an hour passes
Tick ==
  /\ now < StartHour + MaxTicks
  /\ \A p \in Procs : pc[p] = "idle"
  /\ now' = now + 1
  /\ UNCHANGED <<store, cache, config, dbGroupConfig, session, calls, appended,
                 pc, local, started>>
  /\ UNCHANGED <<resolveVars, probeVars>>

RecordViolation(w, k, trig, bound) ==
  /\ Len(appended[k]) < bound
  /\ \A p \in Procs : pc[p] = "idle"
  /\ Becomes(updateUserPunishmentRecord(Current, w, k, config, now, trig))
  /\ UNCHANGED <<now, config, session, pc, local, started>>

LedgerRecord ==
  \E trig \in LedgerTriggers :
    RecordViolation("keywordHandler", TheKey, trig, MaxRecords)

LedgerQuery ==
  /\ Becomes(queryUserWarningRecord(Current, "index", TheKey, config, now))
  /\ UNCHANGED <<now, config, session, pc, local, started>>

LedgerReset ==
  /\ Becomes(resetUserWarningRecord(Current, "index", TheKey))
  /\ UNCHANGED <<now, config, session, pc, local, started>>

Next == Tick \/ LedgerRecord \/ LedgerQuery \/ LedgerReset

Spec == Init /\ [][Next]_vars

----------------------------------------------------------------------------
(* Recorded violations only, up to more than the history holds *)

InitHistory ==
  /\ InitCommon
  /\ config = DefaultConfig

HistoryRecord ==
  RecordViolation("keywordHandler", TheKey,
                  Trigger("spam", "keyword", "warn", "this is spam"),
                  MaxHistoryRecords)

NextHistory == Tick \/ HistoryRecord

SpecHistory == InitHistory /\ [][NextHistory]_vars

----------------------------------------------------------------------------
(* Two updateUserPunishmentRecord calls for one key, step by step *)

ConcurrentTrigger == Trigger("spam", "keyword", "warn", "this is spam")

\* a violation recorded before the two calls start
ConcurrentSeed ==
  RecordViolation("keywordHandler", TheKey, ConcurrentTrigger, MaxRecords)

\* const now = Date.now()
ConcurrentStart(p) ==
  /\ pc[p] = "idle"
  /\ pc' = [pc EXCEPT ![p] = "get"]
  /\ local' = [local EXCEPT ![p] = [t |-> now, record |-> NoRow]]
  /\ IF \A q \in Procs : pc[q] = "idle"
       THEN /\ started' = oldCount(store[TheKey], now, config)
            /\ calls' = <<>>
       ELSE UNCHANGED <<started, calls>>
  /\ UNCHANGED <<store, cache, now, config, dbGroupConfig, session, appended>>
  /\ UNCHANGED <<resolveVars, probeVars>>

\* record = await database.get(...)
ConcurrentGet(p) ==
  /\ pc[p] = "get"
  /\ local' = [local EXCEPT ![p].record = store[TheKey]]
  /\ pc' = [pc EXCEPT ![p] = IF store[TheKey].present THEN "set" ELSE "create"]
  /\ UNCHANGED <<store, cache, now, config, dbGroupConfig, session, calls,
                 appended, started>>
  /\ UNCHANGED <<resolveVars, probeVars>>

\* await database.create(...): rejected when the unique key already exists
ConcurrentCreate(p) ==
  /\ pc[p] = "create"
  /\ IF store[TheKey].present
       THEN /\ pc' = [pc EXCEPT ![p] = "failed"]
            /\ UNCHANGED store
       ELSE /\ pc' = [pc EXCEPT ![p] = "reget"]
            /\ store' = [store EXCEPT ![TheKey] = NewRecordForUpdate]
  /\ UNCHANGED <<cache, now, config, dbGroupConfig, session, calls, appended,
                 local, started>>
  /\ UNCHANGED <<resolveVars, probeVars>>

\* record = await database.get(...) after the create
ConcurrentReget(p) ==
  /\ pc[p] = "reget"
  /\ local' = [local EXCEPT ![p].record = store[TheKey]]
  /\ pc' = [pc EXCEPT ![p] = "set"]
  /\ UNCHANGED <<store, cache, now, config, dbGroupConfig, session, calls,
                 appended, started>>
  /\ UNCHANGED <<resolveVars, probeVars>>

\* await database.set(...), the cache update and the return
ConcurrentSet(p) ==
  LET data == UpdateData(local[p].record, local[p].t, config, ConcurrentTrigger)
  IN /\ pc[p] = "set"
     /\ store' = [store EXCEPT ![TheKey] = SetRow(@, data)]
     /\ cache' = [cache EXCEPT !["keywordHandler"][TheKey] =
                    CacheEntry(data.count, data.lastTriggerTime)]
     /\ appended' = [appended EXCEPT ![TheKey] =
                       Append(@, HistoryEntry(local[p].t, ConcurrentTrigger))]
     /\ calls' = Append(calls, Call("record", TheKey[1], TheKey[2], data.count, TRUE))
     /\ pc' = [pc EXCEPT ![p] = "done"]
     /\ UNCHANGED <<now, config, dbGroupConfig, session, local, started>>
     /\ UNCHANGED <<resolveVars, probeVars>>

NextConcurrent ==
  \/ Tick
  \/ ConcurrentSeed
  \/ \E p \in Procs : ConcurrentStart(p)
  \/ \E p \in Procs : ConcurrentGet(p)
  \/ \E p \in Procs : ConcurrentCreate(p)
  \/ \E p \in Procs : ConcurrentReget(p)
  \/ \E p \in Procs : ConcurrentSet(p)

SpecConcurrent == InitHistory /\ [][NextConcurrent]_vars

----------------------------------------------------------------------------
(* Inbound messages through the middleware of apply *)

\* what the platform answers while one message is handled: the bot's
\* permission, the sender's role, and whether recall, mute and kick succeed
Env(perm, admin, recallOk, muteOk, kickOk) ==
  [perm |-> perm, admin |-> admin, recallOk |-> recallOk, muteOk |-> muteOk,
   kickOk |-> kickOk]

Environments ==
  {Env(TRUE, FALSE, TRUE, TRUE, TRUE),
   Env(TRUE, FALSE, TRUE, TRUE, FALSE),
   Env(TRUE, FALSE, TRUE, FALSE, TRUE),
   Env(TRUE, FALSE, FALSE, TRUE, TRUE),
   Env(TRUE, TRUE, TRUE, TRUE, TRUE),
   Env(FALSE, FALSE, FALSE, FALSE, FALSE)}

\* the session of a message of user u1 in guild g1 under an environment
Inbound(content, e) ==
  Meta("u1", "g1", content, e.perm, e.admin, e.recallOk, e.muteOk, e.kickOk)

IndexMessage ==
  \E content \in {"this is spam", "see evil.example", "spam at evil.example",
                  "keyword.warning.my"},
     e \in Environments :
    LET m == Inbound(content, e)
    IN /\ Len(appended[TheKey]) < MaxRecords
       /\ Becomes(middleware(Current, m, config, now))
       /\ session' = m
       /\ UNCHANGED <<now, config, pc, local, started>>

NextIndex == Tick \/ IndexMessage

SpecIndex == InitHistory /\ [][NextIndex]_vars

----------------------------------------------------------------------------
(* Inbound messages through the middleware of registerMessageHandler *)

\* the configuration once registerMessageHandler has run: per-group
\* overrides on, the guild possibly in the auto-enable list
InitRegistered ==
  /\ InitCommon
  /\ config \in
       {[DefaultConfig EXCEPT
           !.keywords = RegisteredKeywords(DefaultConfig.keywords),
           !.enableGroupSpecificConfig = TRUE,
           !.enabledGroups = groups,
           !.skipAdminCheck = skip] :
          groups \in {{"g1"}}, skip \in BOOLEAN}

RegisteredMessage ==
  \E content \in {"hello", "this is spam", "cheap ad", "spam ad",
                  "see evil.example", "kw.warn.my"},
     e \in Environments :
    LET m == Inbound(content, e)
    IN /\ Len(appended[TheKey]) < MaxRecords
       /\ Becomes(registeredMiddleware(Current, m, config, now))
       /\ session' = m
       /\ UNCHANGED <<now, config, pc, local, started>>

NextRegistered == Tick \/ RegisteredMessage

SpecRegistered == InitRegistered /\ [][NextRegistered]_vars

----------------------------------------------------------------------------
(* The kwgroup enable and disable commands between inbound messages *)

groupDisable_NoWrite(S, meta, cfg, permitted) ==
  LET groupConfig == S.groupConfig[meta.guildId]
  IN Emit(S, "disable", KeyOf(meta), 0,
          /\ permitted /\ cfg.enableGroupSpecificConfig
          /\ groupConfig.present /\ groupConfig.enabled)

\* kwgroup disable; permitted is what checkPermission answers, ok is
\* whether the command wrote enabled: false
groupDisable(S, meta, cfg, permitted) ==
  LET g == meta.guildId
      groupConfig == S.groupConfig[g]
  IN IF ~permitted \/ ~cfg.enableGroupSpecificConfig THEN
       Emit(S, "disable", KeyOf(meta), 0, FALSE)
     ELSE IF ~groupConfig.present THEN Emit(S, "disable", KeyOf(meta), 0, FALSE)
     ELSE IF groupConfig.enabled
       THEN Emit([S EXCEPT !.groupConfig[g].enabled = FALSE],
                 "disable", KeyOf(meta), 0, TRUE)
     ELSE Emit(S, "disable", KeyOf(meta), 0, FALSE)

\* kwgroup enable: creates the override with the default presets when the
\* guild has none, sets enabled: true when it has a disabled one
\* kwgroup importpreset <presetName>: an override is created for a guild
\* that has none, and the keywords of the preset are merged into it; the
\* reply counts the keywords added
groupImportPreset(S, meta, cfg, permitted, presetName) ==
  LET g == meta.guildId
      newConfig == [present |-> TRUE, enabled |-> TRUE, keywords |-> <<>>,
                    customMessage |-> cfg.customMessage, urlWhitelist |-> <<>>,
                    urlCustomMessage |-> cfg.urlCustomMessage]
      groupConfig == IF S.groupConfig[g].present THEN S.groupConfig[g]
                     ELSE newConfig
      originalKeywords == groupConfig.keywords
      newKeywords == importpreset(originalKeywords, PresetKeywords(presetName))
  IN IF ~permitted \/ ~cfg.enableGroupSpecificConfig THEN
       Emit(S, "importpreset", KeyOf(meta), 0, FALSE)
     ELSE IF presetName \notin PresetNames THEN
       Emit(S, "importpreset", KeyOf(meta), 0, FALSE)
     ELSE Emit([S EXCEPT !.groupConfig[g] =
                  [groupConfig EXCEPT !.keywords = newKeywords]],
               "importpreset", KeyOf(meta),
               Len(newKeywords) - Len(originalKeywords), TRUE)

groupEnable(S, meta, cfg, permitted) ==
  LET g == meta.guildId
      groupConfig == S.groupConfig[g]
      newConfig == [present |-> TRUE, enabled |-> TRUE, keywords |-> <<>>,
                    customMessage |-> cfg.customMessage, urlWhitelist |-> <<>>,
                    urlCustomMessage |-> cfg.urlCustomMessage]
  IN IF ~permitted \/ ~cfg.enableGroupSpecificConfig THEN
       Emit(S, "enable", KeyOf(meta), 0, FALSE)
     ELSE IF ~groupConfig.present THEN
       Emit([S EXCEPT !.groupConfig[g] =
               IF cfg.autoImportPresets /\ cfg.defaultPresets # <<>>
                 THEN [newConfig EXCEPT !.keywords =
                         ImportPresets(<<>>, cfg.defaultPresets)]
                 ELSE newConfig],
            "enable", KeyOf(meta), 0, TRUE)
     ELSE IF ~groupConfig.enabled
       THEN Emit([S EXCEPT !.groupConfig[g].enabled = TRUE],
                 "enable", KeyOf(meta), 0, TRUE)
     ELSE Emit(S, "enable", KeyOf(meta), 0, FALSE)

\* evil.example is on the global whitelist and on no override's
InitGroup ==
  /\ InitCommon
  /\ config \in
       {[DefaultConfig EXCEPT
           !.keywords = RegisteredKeywords(DefaultConfig.keywords),
           !.enableGroupSpecificConfig = TRUE,
           !.urlWhitelist = <<"evil.example">>,
           !.enabledGroups = groups] :
          groups \in {{}, {"g1"}}}

GroupMessage ==
  \E content \in {"hello", "this is spam", "cheap ad", "see evil.example"},
     e \in {Env(TRUE, FALSE, TRUE, TRUE, TRUE),
            Env(FALSE, FALSE, FALSE, FALSE, FALSE)} :
    LET m == Inbound(content, e)
    IN /\ Len(appended[TheKey]) < MaxRecords
       /\ Becomes(registeredMiddleware(Current, m, config, now))
       /\ session' = m
       /\ UNCHANGED <<now, config, pc, local, started>>

GroupDisable ==
  \E permitted \in BOOLEAN :
    LET m == Inbound("kwgroup disable", Env(TRUE, permitted, TRUE, TRUE, TRUE))
    IN /\ Becomes(groupDisable(Current, m, config, permitted))
       /\ session' = m
       /\ UNCHANGED <<now, config, pc, local, started>>

GroupEnable ==
  \E permitted \in BOOLEAN :
    LET m == Inbound("kwgroup enable", Env(TRUE, permitted, TRUE, TRUE, TRUE))
    IN /\ Becomes(groupEnable(Current, m, config, permitted))
       /\ session' = m
       /\ UNCHANGED <<now, config, pc, local, started>>

NextGroup == Tick \/ GroupMessage \/ GroupDisable \/ GroupEnable

SpecGroup == InitGroup /\ [][NextGroup]_vars

----------------------------------------------------------------------------
(* The matchers applied to texts, keyword lists, host names and whitelists *)

MaxTextLen == 2     \* characters of a message text
MaxRules == 2       \* keywords of a keyword list
MaxUrls == 2        \* URLs found in one message
MaxWhitelist == 2   \* entries of a URL whitelist

SeqsUpTo(S, n) == UNION {[1..m -> S] : m \in 0..n}

TextChars == {"a", "A", "d", "("}

Texts == SeqsUpTo(TextChars, MaxTextLen) \cup {CqImage, ImagePlaceholder}

\* keywords: the empty one, plain words, one that differs in case, one that
\* does not compile as a pattern, one with a wildcard
Patterns == {<<>>, <<"a">>, <<"a", "d">>, <<"A">>, <<"(">>, <<".", "d">>}

ExampleCom == <<"e", "x", "a", "m", "p", "l", "e", ".", "c", "o", "m">>

SubExampleCom == <<"s", "u", "b", ".">> \o ExampleCom

ExampleOrg == <<"e", "x", "a", "m", "p", "l", "e", ".", "o", "r", "g">>

NotExampleCom == <<"n", "o", "t">> \o ExampleCom

AmpleCom == <<"a", "m", "p", "l", "e", ".", "c", "o", "m">>

Hosts == {ExampleCom, SubExampleCom, ExampleOrg, NotExampleCom, AmpleCom}

WhitelistEntries == {ExampleCom, ExampleOrg}

\* the arguments of one call of KeywordHandler.checkKeywords
KeywordProbe(m, ks, r, f) ==
  [fn |-> "checkKeywords", message |-> m, keywords |-> ks,
   useRegex |-> r, regexFlags |-> f]

\* the arguments of one call of detectKeywords
DetectProbe(m, ks) ==
  [fn |-> "detectKeywords", message |-> m, keywords |-> ks,
   useRegex |-> FALSE, regexFlags |-> ""]

\* the arguments of one call of checkUrls of either handler
UrlProbe(f, m, us, w) == [fn |-> f, message |-> m, urls |-> us, whitelist |-> w]

InitText ==
  /\ InitTables
  /\ config = DefaultConfig
  /\ mw = NoInvocation
  /\ answer = NoAnswer
  /\ \/ \E m \in Texts, ks \in SeqsUpTo(Patterns, MaxRules) :
          \/ probe = KeywordProbe(m, ks, FALSE, "")
          \/ \E f \in {"", "i", "g", "z"} : probe = KeywordProbe(m, ks, TRUE, f)
          \/ probe = DetectProbe(m, ks)
     \/ \E f \in {"UrlHandler.checkUrls", "KeywordHandler.checkUrls"},
           m \in {<<"a">>, CqImage, ImagePlaceholder},
           us \in SeqsUpTo(Hosts, MaxUrls),
           w \in SeqsUpTo(WhitelistEntries, MaxWhitelist) :
          probe = UrlProbe(f, m, us, w)

Returns(r) ==
  /\ answer' = Applied(r)
  /\ UNCHANGED <<store, cache, now, config, dbGroupConfig, session, calls,
                 appended, pc, local, started, resolveVars, probe, mw>>

ApplyCheckKeywords ==
  /\ probe.fn = "checkKeywords"
  /\ Returns(KeywordHandler_checkKeywords(probe.message, probe.keywords,
                                          probe.useRegex, probe.regexFlags))

ApplyDetectKeywords ==
  /\ probe.fn = "detectKeywords"
  /\ Returns(detectKeywords(probe.message, probe.keywords, 1))

ApplyUrlHandlerCheckUrls ==
  /\ probe.fn = "UrlHandler.checkUrls"
  /\ Returns(UrlHandler_checkUrlsIn(probe.message, probe.urls, probe.whitelist))

ApplyKeywordHandlerCheckUrls ==
  /\ probe.fn = "KeywordHandler.checkUrls"
  /\ Returns(KeywordHandler_checkUrlsIn(probe.message, probe.urls,
                                        probe.whitelist))

NextText ==
  \/ ApplyCheckKeywords
  \/ ApplyDetectKeywords
  \/ ApplyUrlHandlerCheckUrls
  \/ ApplyKeywordHandlerCheckUrls

SpecText == InitText /\ [][NextText]_vars

----------------------------------------------------------------------------
(* The penalty from one violation of a user to the next, within one window *)

MaxCount == 11      \* violations of the user within the window

\* values of secondViolationMuteDuration within the range of ConfigSchema
MuteSeconds == {10, 60, 1800, 3600, 7200, 2592000}

PenaltyConfigs ==
  {[DefaultConfig EXCEPT !.secondViolationMuteDuration = s,
                         !.maxViolationCount = m,
                         !.kickOnMaxViolation = k] :
     s \in MuteSeconds, m \in MaxViolationCounts, k \in BOOLEAN}

PenaltyHandlers ==
  {"KeywordHandler.handleAutoPunishment", "UrlHandler.handleAutoPunishment"}

InitPenalty ==
  /\ InitTables
  /\ config \in PenaltyConfigs
  /\ mw = NoInvocation
  /\ probe \in {[fn |-> h, count |-> 1] : h \in PenaltyHandlers}
  /\ answer = NoAnswer

Kicked == [action |-> "kick", duration |-> 0]

Muted(muteDuration) == [action |-> "mute", duration |-> muteDuration]

\* the user, not kicked so far, violates again: the count is one more, and
\* the handler kicks or mutes for the duration it chose
Violates(triesKick, muteDuration) ==
  /\ probe.count < MaxCount
  /\ ~(answer.done /\ answer.result = Kicked)
  /\ probe' = [probe EXCEPT !.count = probe.count + 1]
  /\ \E kickOk \in BOOLEAN :
       answer' = Applied(IF triesKick /\ kickOk THEN Kicked
                         ELSE Muted(muteDuration))
  /\ UNCHANGED <<store, cache, now, config, dbGroupConfig, session, calls,
                 appended, pc, local, started, resolveVars, mw>>

PenaltyKeyword ==
  /\ probe.fn = "KeywordHandler.handleAutoPunishment"
  /\ Violates(KeywordTriesKick(probe.count + 1, config),
              KeywordMuteDuration(probe.count + 1, config))

PenaltyUrl ==
  /\ probe.fn = "UrlHandler.handleAutoPunishment"
  /\ Violates(UrlTriesKick(probe.count + 1, config),
              UrlMuteDuration(probe.count + 1, config))

NextPenalty == PenaltyKeyword \/ PenaltyUrl

SpecPenalty == InitPenalty /\ [][NextPenalty]_vars

----------------------------------------------------------------------------
(* One invocation of a message middleware after another, call by call *)

MaxPresets == 2     \* presets read by one auto-enable

InitMiddleware ==
  /\ InitCommon
  /\ config = DefaultConfig

OnlyMw(m) ==
  /\ mw' = m
  /\ UNCHANGED <<store, cache, now, config, dbGroupConfig, session, calls,
                 appended, pc, local, started, resolveVars, probe, answer>>

\* a message arrives; outside a guild the middleware of apply and the earlier
\* one call next() before they enter the try block
MwInvoke ==
  /\ mw.pc \in {"idle", "done"}
  /\ \E which \in Middlewares, inGuild \in BOOLEAN :
       IF ~inGuild /\ which # "registerMessageHandler"
         THEN OnlyMw(ReturnNext(Invocation(which, "try", "start", 0)))
         ELSE OnlyMw(Invocation(which, "try", "start", 0))

\* the message is a command of the plugin
MwCommand ==
  /\ mw.pc = "try"
  /\ mw.site = "start"
  /\ OnlyMw(ReturnNext(mw))

\* the next call is made and awaited
MwAwait ==
  /\ mw.pc = "try"
  /\ \E site \in Follows(mw) \ {"return", "end"} :
       /\ site = "getPresetPackage" => mw.presets < MaxPresets
       /\ OnlyMw([mw EXCEPT !.pc = "await", !.site = site,
                            !.presets = IF site = "getPresetPackage"
                                          THEN @ + 1 ELSE @])

\* the awaited call returns
MwSettle ==
  /\ mw.pc = "await"
  /\ OnlyMw([mw EXCEPT !.pc = "try"])

\* the awaited call throws: a store call or a punishment action inside it
\* failed and nothing below the middleware caught it
MwThrow ==
  /\ mw.pc = "await"
  /\ OnlyMw([mw EXCEPT !.pc = "catch", !.threw = mw.site])

MwCatch ==
  /\ mw.pc = "catch"
  /\ OnlyMw(Caught(mw))

\* a return next() inside the try block
MwReturn ==
  /\ mw.pc = "try"
  /\ "return" \in Follows(mw)
  /\ OnlyMw(ReturnNext(mw))

\* the try block is left at its end
MwLeave ==
  /\ mw.pc = "try"
  /\ "end" \in Follows(mw)
  /\ OnlyMw([mw EXCEPT !.pc = "end"])

\* the return next() after the try block
MwNext ==
  /\ mw.pc = "end"
  /\ OnlyMw(ReturnNext(mw))

NextMiddleware ==
  \/ MwInvoke
  \/ MwCommand
  \/ MwAwait
  \/ MwSettle
  \/ MwThrow
  \/ MwCatch
  \/ MwReturn
  \/ MwLeave
  \/ MwNext

\* every awaited call settles and the continuation then runs
SpecMiddleware ==
  InitMiddleware /\ [][NextMiddleware]_vars /\ WF_vars(NextMiddleware)

----------------------------------------------------------------------------
(* One message after a number of earlier violations, for every maximum *)

\* a keyword violation by the user, punished as far as a mute
SeedMeta == Meta("u1", "g1", "this is spam", TRUE, FALSE, TRUE, TRUE, FALSE)

InitSeeded ==
  /\ InitCommon
  /\ config \in
       {[DefaultConfig EXCEPT
           !.maxViolationCount = max,
           !.kickOnMaxViolation = kick,
           !.secondViolationMuteDuration = second] :
          max \in MaxViolationCounts, kick \in BOOLEAN, second \in {10, 60}}

\* a message, as long as every message before it was that violation
SeededMessage ==
  \E content \in {"hello", "this is spam", "see evil.example",
                  "spam at evil.example"},
     e \in Environments :
    LET m == Inbound(content, e)
    IN /\ session \in {NoMeta, SeedMeta}
       /\ Len(appended[TheKey]) < MaxSeed + 1
       /\ Becomes(middleware(Current, m, config, now))
       /\ session' = m
       /\ UNCHANGED <<now, config, pc, local, started>>

NextSeeded == SeededMessage

SpecSeeded == InitSeeded /\ [][NextSeeded]_vars

----------------------------------------------------------------------------
(* Properties of the ledger *)

\* the number of entries at the end of a log that follow one another within
\* the reset window
RECURSIVE RunLength(_, _, _)
RunLength(log, i, window) ==
  IF i <= 1 THEN i
  ELSE IF log[i].time - log[i - 1].time > window THEN 1
  ELSE 1 + RunLength(log, i - 1, window)

\* C1: recorded violations of one key that follow one another at most the
\* reset window apart are counted 1, 2, ..., N, each call returning the new
\* count; a violation recorded more than the window after the previous one
\* is returned and stored as 1
C1_CountsInWindow ==
  LET log == appended[TheKey]
      n == RunLength(log, Len(log), config.punishmentResetHours)
  IN Len(log) > 0 =>
       /\ store[TheKey].count = n
       /\ calls = <<Call("record", TheKey[1], TheKey[2], n, TRUE)>>

C1_Witness ==
  LET log == appended[TheKey]
  IN /\ Len(log) = 3
     /\ log[2].time - log[1].time <= config.punishmentResetHours
     /\ log[3].time - log[2].time > config.punishmentResetHours
     /\ store[TheKey].count = 1
     /\ calls = <<Call("record", TheKey[1], TheKey[2], 1, TRUE)>>

\* C5: a read of the record that follows a reset of the same key, with no
\* violation recorded in between, reports a count of 0
C5_QueryAfterReset ==
  [][(/\ Len(calls) = 1
      /\ calls[1].op = "reset"
      /\ Len(calls') = 1
      /\ calls'[1].op = "query") => calls'[1].n = 0]_vars

C5_Witness ==
  LET log == appended[TheKey]
  IN /\ Len(log) > 0
     /\ now - log[Len(log)].time <= config.punishmentResetHours
     /\ store[TheKey].present
     /\ store[TheKey].lastTriggerTime = 0
     /\ calls = <<Call("query", TheKey[1], TheKey[2], 0, TRUE)>>

\* C6: a reset returns false exactly when the key has no row, and then
\* changes nothing; otherwise it returns true and sets count and
\* lastTriggerTime of the row to 0, leaving its other fields
C6_ResetResult ==
  [][(/\ calls' # calls
      /\ Len(calls') = 1
      /\ calls'[1].op = "reset") =>
       LET row == store[TheKey]
       IN /\ calls'[1].ok = row.present
          /\ ~row.present => store' = store /\ cache' = cache
          /\ row.present =>
               store'[TheKey] = [row EXCEPT !.count = 0, !.lastTriggerTime = 0]]_vars

C6_Witness ==
  /\ calls = <<Call("reset", TheKey[1], TheKey[2], 0, TRUE)>>
  /\ store[TheKey].present
  /\ store[TheKey].count = 0
  /\ store[TheKey].lastTriggerTime = 0
  /\ Len(store[TheKey].actionHistory) = 2
  /\ appended[TheKey][2].time = now

\* C7: the stored history never holds more than 10 entries and always is
\* the last min(n, 10) of the n entries pushed for the key, oldest first
C7_HistoryWindow ==
  LET log == appended[TheKey]
      n == Len(log)
      m == IF n < 10 THEN n ELSE 10
  IN store[TheKey].present =>
       /\ Len(store[TheKey].actionHistory) <= 10
       /\ store[TheKey].actionHistory = SubSeq(log, n - m + 1, n)

C7_Witness ==
  LET log == appended[TheKey]
      history == store[TheKey].actionHistory
  IN /\ Len(log) = 12
     /\ Len(history) = 10
     /\ history[1] = log[3]
     /\ log[1].time # log[3].time
     /\ history[1].time # history[10].time

----------------------------------------------------------------------------
(* Properties of the handling of one message *)

IsVerdict(c) == c.op \in {"keyword", "url"}

IsRecord(c) == c.op = "record"

IsQuery(c) == c.op = "query"

IsAttempt(c) == c.op \in {"mute", "kick"}

\* the positions in the calls at which a detection reported a violation
Verdicts == {i \in 1..Len(calls) : IsVerdict(calls[i])}

\* the calls made for the violation reported at position i
Handling(i) ==
  LET later == {j \in Verdicts : j > i}
      last == IF later = {} THEN Len(calls)
              ELSE (CHOOSE j \in later : \A l \in later : j <= l) - 1
  IN SubSeq(calls, i + 1, last)

\* the count the handling at position i obtained for the violation, 0 when
\* it recorded none
ViolationCount(i) ==
  LET records == SelectSeq(Handling(i), IsRecord)
  IN IF records = <<>> THEN 0 ELSE records[1].n

\* the mute and kick calls of the handling at position i, in order
Attempts(i) == SelectSeq(Handling(i), IsAttempt)

Mute(duration, ok) == Call("mute", TheKey[1], TheKey[2], duration, ok)

\* C2: with auto-punishment on and the bot permitted to act, handling one
\* message classified as a violation leaves the stored count one above the
\* in-window count read before it, whatever tier applied and whether the
\* mute or kick succeeded
C2_OneIncrementPerMessage ==
  (/\ config.enableAutoPunishment
   /\ session.hasBotPermission
   /\ Verdicts # {}) =>
     LET queries == SelectSeq(calls, IsQuery)
     IN /\ queries # <<>>
        /\ store[TheKey].count = queries[1].n + 1

\* C3: when two recordViolation calls for one key have both returned, the
\* stored count is the in-window count before them plus two and the two
\* returned counts differ
C3_NoLostIncrement ==
  (\A p \in Procs : pc[p] \in {"done", "failed"}) =>
     /\ \A p \in Procs : pc[p] = "done"
     /\ store[TheKey].count = started + 2
     /\ Len(calls) = 2
     /\ calls[1].n # calls[2].n

\* C4: one message yields at most one violation verdict and at most one
\* increment of the count
C4_OneVerdictPerMessage ==
  /\ Cardinality(Verdicts) <= 1
  /\ Len(SelectSeq(calls, IsRecord)) <= 1

\* C8: for every maximum in 2..10 the tier depends on the count alone: a
\* warning at 1, a mute of secondViolationMuteDuration at 2, at the maximum
\* a kick attempt when kickOnMaxViolation is set and a mute of 3600 s
\* otherwise
C8_TierByCount ==
  (config.enableAutoPunishment /\ session.hasBotPermission) =>
    \A i \in Verdicts :
      LET c == ViolationCount(i)
          attempts == Attempts(i)
      IN /\ c = 1 => attempts = <<>>
         /\ c = 2 =>
              attempts = <<Mute(config.secondViolationMuteDuration, session.muteOk)>>
         /\ (c = config.maxViolationCount /\ config.kickOnMaxViolation) =>
              /\ attempts # <<>>
              /\ attempts[1].op = "kick"
         /\ (c = config.maxViolationCount /\ ~config.kickOnMaxViolation) =>
              attempts = <<Mute(3600, session.muteOk)>>

\* the number of violations detected in the run of recorded entries that
\* ends the log: each detection pushes one entry with action "warn" first
Streak ==
  LET log == appended[TheKey]
      n == RunLength(log, Len(log), config.punishmentResetHours)
  IN Cardinality({i \in (Len(log) - n + 1)..Len(log) : log[i].action = "warn"})

\* C9: with a maximum of 3, kickOnMaxViolation set and a second-violation
\* mute of 60 s, successive in-window violations are handled as a warning,
\* then a mute of 60 s, then a kick attempt from the third on; a kick
\* attempt that fails is followed by a mute of 3600 s in the same handling
C9_WarnMuteKick ==
  (/\ config.enableAutoPunishment
   /\ config.maxViolationCount = 3
   /\ config.kickOnMaxViolation
   /\ config.secondViolationMuteDuration = 60
   /\ session.hasBotPermission) =>
    /\ \A i \in Verdicts :
         LET c == ViolationCount(i)
             attempts == Attempts(i)
         IN /\ c = 1 => attempts = <<>>
            /\ c = 2 => attempts = <<Mute(60, session.muteOk)>>
            /\ c >= 3 =>
                 /\ attempts # <<>>
                 /\ attempts[1].op = "kick"
                 /\ attempts[1].ok => Len(attempts) = 1
                 /\ ~attempts[1].ok =>
                      /\ Len(attempts) = 2
                      /\ attempts[2] = Mute(3600, session.muteOk)
    /\ \A i \in Verdicts :
         (/\ \A j \in Verdicts : j <= i
          /\ ViolationCount(i) > 0
          /\ appended[TheKey][Len(appended[TheKey])].time = now) =>
           /\ Streak = 1 => ViolationCount(i) = 1
           /\ Streak = 2 => ViolationCount(i) = 2
           /\ Streak >= 3 => ViolationCount(i) >= 3

C9_Witness ==
  /\ config.maxViolationCount = 3
  /\ config.kickOnMaxViolation
  /\ config.secondViolationMuteDuration = 60
  /\ session.hasBotPermission
  /\ Streak = 3
  /\ \E i \in Verdicts :
       /\ ViolationCount(i) = 3
       /\ Attempts(i) = <<Call("kick", TheKey[1], TheKey[2], 0, FALSE),
                          Mute(3600, TRUE)>>

\* C10: for a count strictly between 2 and the maximum the handling mutes
\* for secondViolationMuteDuration * (count - 1) seconds and does not kick
C10_ProgressiveMute ==
  (config.enableAutoPunishment /\ session.hasBotPermission) =>
    \A i \in Verdicts :
      LET c == ViolationCount(i)
      IN (2 < c /\ c < config.maxViolationCount) =>
           Attempts(i) =
             <<Mute(config.secondViolationMuteDuration * (c - 1), session.muteOk)>>

C10_Witness ==
  /\ session.hasBotPermission
  /\ config.maxViolationCount = 6
  /\ config.secondViolationMuteDuration = 10
  /\ \E i \in Verdicts :
       /\ calls[i].op = "url"
       /\ ViolationCount(i) = 4
       /\ Attempts(i) = <<Mute(30, TRUE)>>

----------------------------------------------------------------------------
(* The administration commands of index.ts over several keys *)

MaxAdminRecords == 2   \* recorded violations in the command runs
MaxAdminTicks == 2     \* hours that pass in the command runs

\* the rows of keyword_warnings in the order database.get returns them
TableOrder == <<<<"u1", "g1">>, <<"u2", "g1">>, <<"u1", "g2">>, <<"u2", "g2">>>>

AdminKeys == {<<"u1", "g1">>, <<"u2", "g1">>, <<"u1", "g2">>}

\* session.user.authority of the sender of a command
Authorities == {1, 2, 3}

ListExpired_AtWindow(record, t, cfg) ==
  record.lastTriggerTime = 0 \/ t - record.lastTriggerTime >= resetTimeMs(cfg)

\* isExpired of getAllWarnedUserIds and syncAllRecords
ListExpired(record, t, cfg) ==
  record.lastTriggerTime = 0 \/ t - record.lastTriggerTime > resetTimeMs(cfg)

\* the keys of the rows getAllWarnedUserIds pushes for a guild, in order
WarnedKeys(s, g, cfg, t) ==
  LET Warned(k) == /\ s[k].present
                   /\ s[k].count > 0
                   /\ k[2] = g
                   /\ ~ListExpired(s[k], t, cfg)
  IN SelectSeq(TableOrder, Warned)

\* WarningManager.getAllWarnedUserIds: a "list" call with the number of
\* user ids returned, then one "listed" call for each of them
getAllWarnedUserIds(S, g, cfg, t) ==
  LET ks == WarnedKeys(S.store, g, cfg, t)
  IN [S EXCEPT !.calls = @ \o <<Call("list", "", g, Len(ks), TRUE)>>
                           \o [i \in 1..Len(ks) |->
                                 Call("listed", ks[i][1], g, 0, TRUE)],
               !.ret = Len(ks), !.ok = TRUE]

\* the loop of keyword.warning.list: queryUserWarningRecord for each user id
RECURSIVE QueryEach(_, _, _, _)
QueryEach(S, ks, cfg, t) ==
  IF ks = <<>> THEN S
  ELSE QueryEach(queryUserWarningRecord(S, "index", Head(ks), cfg, t),
                 Tail(ks), cfg, t)

\* the command keyword.warning.list
warningList(S, authority, g, cfg, t) ==
  IF authority < 2 \/ ~cfg.enableAutoPunishment
    THEN Emit(S, "denied", <<"", g>>, 0, FALSE)
    ELSE QueryEach(getAllWarnedUserIds(S, g, cfg, t),
                   WarnedKeys(S.store, g, cfg, t), cfg, t)

SyncKeeps_AnyCounted(record, t, cfg) == record.count > 0

\* whether syncAllRecords keeps the row
SyncKeeps(record, t, cfg) == record.count > 0 /\ ~ListExpired(record, t, cfg)

\* WarningManager.syncAllRecords: ret is the number of rows it reset
syncAllRecords(S, w, cfg, t) ==
  LET resets == {k \in Keys : S.store[k].present /\ ~SyncKeeps(S.store[k], t, cfg)}
  IN Emit([S EXCEPT
             !.store = [k \in Keys |-> IF k \in resets THEN ZeroRow(@[k]) ELSE @[k]],
             !.cache[w] = [k \in Keys |->
                             IF k \in resets THEN CacheEntry(0, 0) ELSE @[k]]],
          "sync", <<"", "">>, Cardinality(resets), TRUE)

\* kept and reset as the loop of syncAllRecords counts them over the rows
RECURSIVE SyncLoop(_, _, _, _)
SyncLoop(records, s, t, cfg) ==
  IF records = <<>> THEN [kept |-> 0, reset |-> 0]
  ELSE LET rest == SyncLoop(Tail(records), s, t, cfg)
       IN IF SyncKeeps(s[Head(records)], t, cfg)
            THEN [rest EXCEPT !.kept = @ + 1]
            ELSE [rest EXCEPT !.reset = @ + 1]

\* {total, kept, reset}, the value syncAllRecords returns
SyncResult(s, t, cfg) ==
  LET Present(k) == s[k].present
      records == SelectSeq(TableOrder, Present)
      counted == SyncLoop(records, s, t, cfg)
  IN [total |-> Len(records), kept |-> counted.kept, reset |-> counted.reset]

\* the command keyword.warning.sync
warningSync(S, authority, cfg, t) ==
  IF authority < 2
    THEN Emit(S, "denied", <<"", "">>, 0, FALSE)
    ELSE syncAllRecords(S, "index", cfg, t)

ClearedTable_Zeroed(s) == [k \in Keys |-> [s[k] EXCEPT !.lastTriggerTime = 0]]

\* the table after database.remove('keyword_warnings', {})
ClearedTable(s) == [k \in Keys |-> NoRow]

\* the command keyword.warning.clear-all: ret is the number of rows removed
warningClearAll(S, authority) ==
  IF authority < 3
    THEN Emit(S, "denied", <<"", "">>, 0, FALSE)
    ELSE Emit([S EXCEPT !.store = ClearedTable(@)],
              "clear", <<"", "">>,
              Cardinality({k \in Keys : S.store[k].present}), TRUE)

\* an hour passes between two commands
AdminTick ==
  /\ now < StartHour + MaxAdminTicks
  /\ now' = now + 1
  /\ calls' = <<>>
  /\ UNCHANGED <<store, cache, config, dbGroupConfig, session, appended,
                 pc, local, started>>
  /\ UNCHANGED <<resolveVars, probeVars>>

\* the number of violations recorded so far, over all keys
RECURSIVE Recorded(_)
Recorded(ks) ==
  IF ks = {} THEN 0
  ELSE LET k == CHOOSE x \in ks : TRUE
       IN Len(appended[k]) + Recorded(ks \ {k})

AdminRecord ==
  \E k \in AdminKeys :
    /\ Recorded(Keys) < MaxAdminRecords
    /\ RecordViolation("keywordHandler", k,
                       Trigger("spam", "keyword", "warn", "this is spam"),
                       MaxAdminRecords)

AdminQuery ==
  /\ Becomes(queryUserWarningRecord(Current, "index", TheKey, config, now))
  /\ UNCHANGED <<now, config, session, pc, local, started>>

AdminReset ==
  /\ Becomes(resetUserWarningRecord(Current, "index", TheKey))
  /\ UNCHANGED <<now, config, session, pc, local, started>>

AdminList ==
  \E authority \in Authorities, g \in Guilds :
    /\ Becomes(warningList(Current, authority, g, config, now))
    /\ UNCHANGED <<now, config, session, pc, local, started>>

AdminSync ==
  \E authority \in Authorities :
    /\ Becomes(warningSync(Current, authority, config, now))
    /\ UNCHANGED <<now, config, session, pc, local, started>>

AdminClearAll ==
  \E authority \in Authorities :
    /\ Becomes(warningClearAll(Current, authority))
    /\ UNCHANGED <<now, config, session, pc, local, started>>

NextAdmin ==
  \/ AdminTick
  \/ AdminRecord
  \/ AdminQuery
  \/ AdminReset
  \/ AdminList
  \/ AdminSync
  \/ AdminClearAll

SpecAdmin == InitHistory /\ [][NextAdmin]_vars

----------------------------------------------------------------------------
(* The ledger operations for several users and guilds, one after another *)

getRecordKey_UserOnly(userId, guildId) == <<userId, "g1">>

\* WarningManager.getRecordKey: the user and the guild together select the
\* record, in the cache and in the queries on keyword_warnings
getRecordKey(userId, guildId) == <<userId, guildId>>

\* the session of the message or command of user u in guild g that an
\* operation is run for
Request(u, g, content) == Meta(u, g, content, TRUE, FALSE, TRUE, TRUE, TRUE)

KeysRecord ==
  \E k \in AdminKeys :
    /\ Recorded(Keys) < MaxAdminRecords
    /\ Becomes(updateUserPunishmentRecord(
                 Current, "keywordHandler", getRecordKey(k[1], k[2]), config, now,
                 Trigger("spam", "keyword", "warn", "this is spam")))
    /\ session' = Request(k[1], k[2], "this is spam")
    /\ UNCHANGED <<now, config, pc, local, started>>

KeysQuery ==
  \E k \in AdminKeys :
    /\ Becomes(queryUserWarningRecord(
                 Current, "index", getRecordKey(k[1], k[2]), config, now))
    /\ session' = Request(k[1], k[2], "keyword.warning.my")
    /\ UNCHANGED <<now, config, pc, local, started>>

KeysReset ==
  \E k \in AdminKeys :
    /\ Becomes(resetUserWarningRecord(
                 Current, "index", getRecordKey(k[1], k[2])))
    /\ session' = Request(k[1], k[2], "keyword.warning.reset")
    /\ UNCHANGED <<now, config, pc, local, started>>

NextKeys == AdminTick \/ KeysRecord \/ KeysQuery \/ KeysReset

SpecKeys == InitHistory /\ [][NextKeys]_vars

----------------------------------------------------------------------------
(* getMergedConfig, one call at a time and two calls interleaved *)

\* the overrides the commands store
Overrides ==
  {[present |-> TRUE, enabled |-> FALSE, keywords |-> <<"ad">>,
    customMessage |-> "group notice", urlWhitelist |-> <<"evil.example">>,
    urlCustomMessage |-> "group url notice"],
   [present |-> TRUE, enabled |-> TRUE, keywords |-> <<>>,
    customMessage |-> "", urlWhitelist |-> <<>>, urlCustomMessage |-> ""],
   [present |-> TRUE, enabled |-> TRUE, keywords |-> <<"ad">>,
    customMessage |-> "", urlWhitelist |-> <<>>, urlCustomMessage |-> ""],
   [present |-> TRUE, enabled |-> TRUE, keywords |-> <<>>,
    customMessage |-> "group notice", urlWhitelist |-> <<"evil.example">>,
    urlCustomMessage |-> ""],
   [present |-> TRUE, enabled |-> TRUE, keywords |-> <<"ad", "spam">>,
    customMessage |-> "group notice", urlWhitelist |-> <<"evil.example">>,
    urlCustomMessage |-> "group url notice"]}

InitResolve ==
  /\ InitCommon
  /\ config \in {[DefaultConfig EXCEPT
                     !.enableGroupSpecificConfig = e,
                     !.enabledGroups = {"g1"},
                     !.urlWhitelist = <<"safe.example">>,
                     !.defaultPresets = d] :
                  e \in BOOLEAN,
                  d \in {<<>>, <<"common">>, <<"common", "spam">>}}

RunOf(p) == Run(gcTable, gcCache, mlocal[p], mpc[p])

\* the variables a step of a call leaves
Lands(p, R) ==
  /\ gcTable' = R.table
  /\ gcCache' = R.cache
  /\ mlocal' = [mlocal EXCEPT ![p] = R.l]
  /\ mpc' = [mpc EXCEPT ![p] = R.pc]
  /\ config' = R.l.global
  /\ UNCHANGED <<store, cache, now, dbGroupConfig, session, calls,
                 appended, pc, local, started, probeVars>>

\* no other call is between two of its steps
Alone(p) == \A q \in Procs \ {p} : mpc[q] \in {"idle", "done"}

Settled == \A p \in Procs : mpc[p] \in {"idle", "done"}

\* getMergedConfig(guildId, globalConfig) is called
ResolveStart(p) ==
  /\ mpc[p] = "idle"
  /\ \E g \in Guilds :
       Lands(p, getMergedConfig(
                  Run(gcTable, gcCache,
                      [NoLocal EXCEPT !.guild = g,
                                      !.global = config,
                                      !.fresh = ~gcTable[g].present],
                      "idle"),
                  config))

ResolveGet(p) ==
  /\ mpc[p] = "get1"
  /\ Lands(p, AfterFirstGet(getGroupConfig(RunOf(p)), config,
                            gcTable[mlocal[p].guild]))

ResolveUpdateGet(p) ==
  /\ mpc[p] = "upd_get"
  /\ Lands(p, UpdateGot(RunOf(p)))

ResolveWrite(p) ==
  /\ mpc[p] = "write"
  /\ Lands(p, WriteGroupConfig(RunOf(p), config))

ResolveReload(p) ==
  /\ mpc[p] = "reload"
  /\ Lands(p, AfterUpdate(loadGroupConfigsFromDatabase(RunOf(p)), config))

ResolveImport(p) ==
  /\ mpc[p] = "import"
  /\ Lands(p, importPresetKeywords(RunOf(p), config))

ResolveImportGet(p) ==
  /\ mpc[p] = "imp_get"
  /\ Lands(p, ImportGot(RunOf(p), config))

ResolveFinalGet(p) ==
  /\ mpc[p] = "get4"
  /\ Lands(p, Return(getGroupConfig(RunOf(p)), config,
                     gcTable[mlocal[p].guild]))

\* updateGroupConfig with a whole override, between calls of
\* getMergedConfig; the calls that returned before it are forgotten
OverrideWrite ==
  /\ Settled
  /\ \E g \in Guilds, o \in Overrides :
       /\ gcTable' = [gcTable EXCEPT ![g] = o]
       /\ gcCache' = [gcTable EXCEPT ![g] = o]
  /\ mpc' = [p \in Procs |-> "idle"]
  /\ mlocal' = [p \in Procs |-> NoLocal]
  /\ UNCHANGED <<store, cache, now, config, dbGroupConfig, session, calls,
                 appended, pc, local, started, probeVars>>

\* deleteGroupConfig, between calls of getMergedConfig
OverrideDelete ==
  /\ Settled
  /\ \E g \in Guilds :
       /\ gcTable[g].present
       /\ gcTable' = [gcTable EXCEPT ![g] = NoGroupConfig]
       /\ gcCache' = [gcCache EXCEPT ![g] = NoGroupConfig]
  /\ mpc' = [p \in Procs |-> "idle"]
  /\ mlocal' = [p \in Procs |-> NoLocal]
  /\ UNCHANGED <<store, cache, now, config, dbGroupConfig, session, calls,
                 appended, pc, local, started, probeVars>>

\* one call at a time: the cache then holds every row before a call looks
\* for it, so the database.get of an import and of the last getGroupConfig
\* are never reached
NextResolve ==
  \/ OverrideWrite
  \/ OverrideDelete
  \/ \E p \in Procs : Alone(p) /\ ResolveStart(p)
  \/ \E p \in Procs : Alone(p) /\ ResolveGet(p)
  \/ \E p \in Procs : Alone(p) /\ ResolveUpdateGet(p)
  \/ \E p \in Procs : Alone(p) /\ ResolveWrite(p)
  \/ \E p \in Procs : Alone(p) /\ ResolveReload(p)
  \/ \E p \in Procs : Alone(p) /\ ResolveImport(p)

SpecResolve == InitResolve /\ [][NextResolve]_vars

NextResolveConcurrent ==
  \/ OverrideWrite
  \/ OverrideDelete
  \/ \E p \in Procs : ResolveStart(p)
  \/ \E p \in Procs : ResolveGet(p)
  \/ \E p \in Procs : ResolveUpdateGet(p)
  \/ \E p \in Procs : ResolveWrite(p)
  \/ \E p \in Procs : ResolveReload(p)
  \/ \E p \in Procs : ResolveImport(p)
  \/ \E p \in Procs : ResolveImportGet(p)
  \/ \E p \in Procs : ResolveFinalGet(p)

SpecResolveConcurrent == InitResolve /\ [][NextResolveConcurrent]_vars

----------------------------------------------------------------------------
(* Expiry and first use of a key *)

\* the rows the table holds
Rows(s) == {k \in Keys : s[k].present}

\* C11: a query or a recorded violation of a key whose row has a non-zero
\* lastTriggerTime more than the reset window ago sets the count to 0 before
\* anything is added: the query stores count 0 and lastTriggerTime 0 and
\* reports 0, the recorded violation returns and stores 1
C11_ExpiredResetsFirst ==
  [][ ( /\ store[TheKey].present
        /\ store[TheKey].lastTriggerTime # 0
        /\ now - store[TheKey].lastTriggerTime > config.punishmentResetHours
        /\ store' # store
        /\ Len(calls') = 1 )
      => /\ IsQuery(calls'[1]) =>
              /\ calls'[1].n = 0
              /\ store'[TheKey].count = 0
              /\ store'[TheKey].lastTriggerTime = 0
         /\ IsRecord(calls'[1]) =>
              /\ calls'[1].n = 1
              /\ store'[TheKey].count = 1
              /\ store'[TheKey].lastTriggerTime = now ]_vars

\* a violation recorded more than the window after the one before it
C11_Witness ==
  /\ Len(calls) = 1
  /\ IsRecord(calls[1])
  /\ calls[1].n = 1
  /\ Len(appended[TheKey]) >= 2
  /\ LET n == Len(appended[TheKey])
     IN appended[TheKey][n].time - appended[TheKey][n - 1].time
          > config.punishmentResetHours
  /\ store[TheKey].count = 1

\* C12: a query or a recorded violation of a key that has no row creates
\* exactly one row, that of the key; the query creates it with count 0 and
\* reports 0, the recorded violation returns 1
C12_FirstUseCreatesOneRow ==
  [][ ( /\ ~store[TheKey].present
        /\ Len(calls') = 1
        /\ IsQuery(calls'[1]) \/ IsRecord(calls'[1])
        /\ calls' # calls \/ store' # store )
      => /\ Rows(store') = Rows(store) \cup {TheKey}
         /\ Cardinality(Rows(store')) = Cardinality(Rows(store)) + 1
         /\ IsQuery(calls'[1]) =>
              /\ store'[TheKey].count = 0
              /\ calls'[1].n = 0
         /\ IsRecord(calls'[1]) =>
              /\ calls'[1].n = 1
              /\ store'[TheKey].count = 1 ]_vars

\* the row a first query created, nothing recorded yet
C12_Witness ==
  /\ calls = <<Call("query", TheKey[1], TheKey[2], 0, TRUE)>>
  /\ store[TheKey].present
  /\ store[TheKey].count = 0
  /\ store[TheKey].lastTriggerType = ""
  /\ appended[TheKey] = <<>>
  /\ Cardinality(Rows(store)) = 1

\* C13: when two ledger calls for a key that had no row when they started
\* have both ended, neither ended with an error and the key has its one row
C13_FirstUseBothComplete ==
  ( /\ \A p \in Procs : pc[p] \in {"done", "failed"}
    /\ \A p \in Procs :
         ~local[p].record.present \/ local[p].record = NewRecordForUpdate )
  => /\ \A p \in Procs : pc[p] = "done"
     /\ store[TheKey].present

----------------------------------------------------------------------------
(* Listing, caches and the bulk clear *)

\* the operation the calls begin with, "" when there is none
FirstOp(cl) == IF cl = <<>> THEN "" ELSE cl[1].op

\* C14: keyword.warning.list for a guild returns exactly the users of that
\* guild whose stored count is above 0 and whose last trigger is at most the
\* reset window ago, each once, and the query the command then makes for
\* each of them at that instant reports a count above 0
C14_ListActive ==
  FirstOp(calls) = "list" =>
    LET g == calls[1].guild
        listed == {i \in 1..Len(calls) : calls[i].op = "listed"}
        users == {calls[i].user : i \in listed}
    IN /\ users = {u \in Users :
                     /\ store[<<u, g>>].present
                     /\ store[<<u, g>>].count > 0
                     /\ now - store[<<u, g>>].lastTriggerTime
                          <= config.punishmentResetHours}
       /\ Cardinality(users) = Cardinality(listed)
       /\ calls[1].n = Cardinality(listed)
       /\ \A u \in users :
            /\ \E i \in 1..Len(calls) :
                  /\ IsQuery(calls[i])
                  /\ calls[i].user = u
                  /\ calls[i].guild = g
                  /\ calls[i].n > 0
            /\ queryUserWarningRecord(Current, "index", <<u, g>>,
                                      config, now).ret > 0

\* a listing that returns one user of the guild and leaves out another whose
\* stored count is above 0 but whose last trigger is outside the window
C14_Witness ==
  /\ FirstOp(calls) = "list"
  /\ calls[1].n = 1
  /\ \E k \in Keys :
       /\ k[2] = calls[1].guild
       /\ store[k].count > 0
       /\ now - store[k].lastTriggerTime > config.punishmentResetHours

\* C15: the cache entry every WarningManager instance holds for a key is
\* absent or equal to the stored count and lastTriggerTime of the key
C15_CachesAgree ==
  \A w \in Managers, k \in Keys :
    cache[w][k].present =>
      /\ store[k].present
      /\ cache[w][k].count = store[k].count
      /\ cache[w][k].lastTriggerTime = store[k].lastTriggerTime

\* no row holds a count above 0
Quiet(s) == \A k \in Keys : ~s[k].present \/ s[k].count = 0

\* every key is reported with count 0 and every guild lists no one
ReportsNothing(s, t) ==
  /\ \A k \in Keys :
       queryUserWarningRecord(Thread(s, cache, appended, dbGroupConfig, <<>>),
                              "index", k, config, t).ret = 0
  /\ \A g \in Guilds : WarnedKeys(s, g, config, t) = <<>>

\* C16: the bulk clear leaves no row, and from then until a violation is
\* recorded no operation gives a row a count above 0, every query reports
\* 0 and every listing is empty
C16_ClearedUntilRecorded ==
  [][ /\ (FirstOp(calls') = "clear" /\ calls'[1].ok) =>
            (Rows(store') = {} /\ Quiet(store'))
      /\ (Quiet(store) /\ FirstOp(calls') # "record") => Quiet(store')
      /\ Quiet(store') => ReportsNothing(store', now')
      /\ (Quiet(store) /\ FirstOp(calls') \in {"query", "list"}) =>
            calls'[1].n = 0 ]_vars

\* a query that created the row of a key again after the bulk clear had
\* removed the row of its recorded violation
C16_Witness ==
  /\ calls = <<Call("query", TheKey[1], TheKey[2], 0, TRUE)>>
  /\ appended[TheKey] # <<>>
  /\ store[TheKey].present
  /\ store[TheKey].lastTriggerType = ""
  /\ store[TheKey].count = 0

----------------------------------------------------------------------------
(* The effective configuration *)

\* the calls of getMergedConfig that have returned
Resolved == {p \in Procs : mpc[p] = "done"}

\* C17: getMergedConfig returns the global configuration, every field as it
\* is, when group-specific configuration is off, or the guild has no stored
\* override and is not pre-enabled, or its stored override is not enabled
C17_GlobalUnchanged ==
  \A p \in Resolved :
    LET g == mlocal[p].guild
    IN ( \/ ~config.enableGroupSpecificConfig
         \/ ~gcTable[g].present /\ g \notin config.enabledGroups
         \/ gcTable[g].present /\ ~gcTable[g].enabled )
       => mlocal[p].result = config

\* a call that returned the global configuration for a guild whose stored
\* override has values of its own but is not enabled
C17_Witness ==
  \E p \in Resolved :
    /\ config.enableGroupSpecificConfig
    /\ gcTable[mlocal[p].guild].present
    /\ ~gcTable[mlocal[p].guild].enabled
    /\ gcTable[mlocal[p].guild].keywords # <<>>
    /\ mlocal[p].result = config

\* C18: in a guild whose stored override is enabled and has keywords, the
\* keywords in force are those of the override in place of the global ones:
\* a message that contains none of the override's keywords gets no keyword
\* verdict
C18_OverrideReplacesKeywords ==
  [][ LET o == dbGroupConfig[session'.guildId]
      IN ( /\ config.enableGroupSpecificConfig
           /\ o.present /\ o.enabled
           /\ o.keywords # <<>>
           /\ calls' # calls \/ session' # session
           /\ checkKeywords(session'.content, o.keywords) = "" )
         => \A i \in 1..Len(calls') : calls'[i].op # "keyword" ]_vars

C21_GlobalReadOnly == [][config' = config]_vars

\* a call that returned a configuration with the keywords and the whitelist
\* of the override in place of the global ones
C21_Witness ==
  \E p \in Resolved :
    /\ mlocal[p].result.keywords # config.keywords
    /\ mlocal[p].result.urlWhitelist # config.urlWhitelist
    /\ mlocal[p].global = config

\* the operation that made the calls is a message through the middleware
IsMessage(cl) == cl # <<>> /\ cl[Len(cl)].op = "next"

HasVerdict(cl, op) == \E i \in 1..Len(cl) : cl[i].op = op

\* C22: the message that follows a kwgroup disable that turned an enabled
\* override off is judged by the global keywords and the global whitelist,
\* not by the override's: it gets a keyword verdict exactly when the
\* bot may act and it contains a global keyword, and a URL verdict only for
\* a URL that the global whitelist does not allow
C22_DisabledUsesGlobal ==
  [][ ( /\ calls = <<Call("disable", session.userId, session.guildId, 0, TRUE)>>
        /\ IsMessage(calls')
        /\ session'.guildId = session.guildId )
      => /\ HasVerdict(calls', "keyword")
              <=> /\ session'.hasBotPermission
                  /\ checkKeywords(session'.content, config.keywords) # ""
         /\ HasVerdict(calls', "url")
              => KeywordHandler_checkUrls(session'.content,
                                          config.urlWhitelist) # ""
         /\ ~dbGroupConfig'[session'.guildId].enabled ]_vars

\* a message with a keyword of the disabled override, from a sender the bot
\* may act on, went through without a keyword verdict
C22_Witness ==
  /\ IsMessage(calls)
  /\ dbGroupConfig[session.guildId].present
  /\ ~dbGroupConfig[session.guildId].enabled
  /\ checkKeywords(session.content, dbGroupConfig[session.guildId].keywords) # ""
  /\ session.hasBotPermission
  /\ ~HasVerdict(calls, "keyword")

\* the keywords of the default presets
RECURSIVE PresetUnion(_)
PresetUnion(names) ==
  IF names = <<>> THEN {}
  ELSE Range(GcmPresetKeywords(Head(names))) \cup PresetUnion(Tail(names))

\* C20: when two interleaved calls for a pre-enabled guild that had no
\* stored override have both returned, the guild has its one override row,
\* enabled, and its keywords are those of the default presets, none twice
C20_ConcurrentSynthesis ==
  \A p, q \in Resolved :
    ( /\ p # q
      /\ config.enableGroupSpecificConfig
      /\ mlocal[p].guild = mlocal[q].guild
      /\ mlocal[p].guild \in config.enabledGroups
      /\ mlocal[p].fresh /\ mlocal[q].fresh )
    => LET o == gcTable[mlocal[p].guild]
       IN /\ o.present
          /\ o.enabled
          /\ Range(o.keywords) = PresetUnion(config.defaultPresets)
          /\ Len(o.keywords) = Cardinality(Range(o.keywords))

\* the text of the probe satisfies the predicate of its i-th rule
Satisfies(pr, i) ==
  IF pr.fn = "detectKeywords" THEN includes(pr.message, pr.keywords[i])
  ELSE /\ pr.keywords[i] # <<>>
       /\ RuleOutcome(pr.message, pr.keywords[i], pr.useRegex, pr.regexFlags)
            = "match"

\* i is the first rule in list order that the text satisfies
FirstSatisfied(pr, i) ==
  /\ i \in 1..Len(pr.keywords)
  /\ Satisfies(pr, i)
  /\ \A j \in 1..(i - 1) : ~Satisfies(pr, j)

OfKeywords == probe.fn \in {"checkKeywords", "detectKeywords"}

\* C23: a keyword matcher applied to a text and an ordered rule list returns
\* the first rule in list order that the text satisfies, none when the text
\* satisfies no rule, and applied again to the same inputs it returns the
\* same result
C23_FirstMatchInOrder ==
  /\ [](( OfKeywords /\ answer.done )
          => /\ \A i \in 1..Len(probe.keywords) :
                  FirstSatisfied(probe, i)
                    => answer.result = Matched(probe.keywords[i])
             /\ (\A i \in 1..Len(probe.keywords) : ~Satisfies(probe, i))
                  => answer.result = NoMatch)
  /\ [][( OfKeywords /\ answer.done ) => answer' = answer]_vars

C23_Witness ==
  /\ probe.fn = "checkKeywords"
  /\ answer.done
  /\ Len(probe.keywords) = 2
  /\ probe.keywords[1] # probe.keywords[2]
  /\ Satisfies(probe, 1)
  /\ Satisfies(probe, 2)
  /\ answer.result = Matched(probe.keywords[1])

\* the i-th rule of the probe does not compile as a pattern
FailsToCompile(pr, i) ==
  RegExpThrows(pr.keywords[i],
               IF pr.regexFlags # "" THEN pr.regexFlags ELSE "i")

\* the text contains the literal text of the i-th rule, case ignored
Contains(pr, i) ==
  includes(toLowerCase(pr.message), toLowerCase(pr.keywords[i]))

OfUrls == probe.fn \in {"UrlHandler.checkUrls", "KeywordHandler.checkUrls"}

\* the host equals a whitelist entry or ends with a dot and the entry
SuffixExcluded(host, whitelist) ==
  \E i \in 1..Len(whitelist) :
    host = whitelist[i] \/ endsWith(host, <<".">> \o whitelist[i])

\* C25: a URL check of a text message reports the first host that no
\* whitelist entry excludes, where an entry excludes the hosts equal to it
\* and those ending with a dot and the entry, and no others: with
\* example.com whitelisted, example.com and sub.example.com are excluded,
\* example.org and notexample.com are not
C25_SuffixWhitelist ==
  ( OfUrls /\ answer.done /\ ~isMediaMessage(probe.message) )
    => /\ \A i \in 1..Len(probe.urls) :
            ( /\ ~SuffixExcluded(probe.urls[i], probe.whitelist)
              /\ \A j \in 1..(i - 1) : SuffixExcluded(probe.urls[j], probe.whitelist) )
            => answer.result = Matched(probe.urls[i])
       /\ (\A i \in 1..Len(probe.urls) : SuffixExcluded(probe.urls[i], probe.whitelist))
            => answer.result = NoMatch

\* C26: a text that is only a media marker gets no verdict from the keyword
\* matcher nor from a URL check, whatever the keyword list and the whitelist
C26_MediaOnlyNoVerdict ==
  ( /\ OfKeywords \/ OfUrls
    /\ answer.done
    /\ probe.message \in {CqImage, ImagePlaceholder} )
    => ~answer.result.matched

\* C29: from one violation to the next within a window the mute never gets
\* shorter: when the user is muted at a count of 2 or more and muted again
\* at the next count, the 3600 seconds used from maxViolationCount on
\* included, the second mute lasts at least as long as the first
C29_PenaltyNeverDecreases ==
  [][ ( /\ probe.fn \in PenaltyHandlers
        /\ answer.done /\ answer.result.action = "mute"
        /\ answer'.done /\ answer'.result.action = "mute"
        /\ probe'.count = probe.count + 1 )
      => answer'.result.duration >= answer.result.duration ]_vars

\* the action a handling carried out: a kick or a mute that succeeded,
\* a warning otherwise
Executed(handling) ==
  IF \E j \in 1..Len(handling) : handling[j].op = "kick" /\ handling[j].ok
    THEN "kick"
  ELSE IF \E j \in 1..Len(handling) : handling[j].op = "mute" /\ handling[j].ok
    THEN "mute"
  ELSE "warn"

\* C28: with auto-punishment on, once the one detection of a message has
\* been handled the record's lastActionType is the action carried out for
\* it (warn, mute or kick), the newest history entry has that action, and
\* the handling has added one history entry
C28_RecordsExecutedAction ==
  ( /\ config.enableAutoPunishment
    /\ session.hasBotPermission
    /\ Cardinality(Verdicts) = 1 )
  => \A i \in Verdicts :
       LET history == store[TheKey].actionHistory
           action == Executed(Handling(i))
       IN /\ store[TheKey].lastActionType = action
          /\ history # <<>>
          /\ history[Len(history)].action = action
          /\ Len(SelectSeq(Handling(i), IsRecord)) = 1

\* C27: an invocation of a message middleware calls next() at most once
\* and no exception leaves it, and it does come to its end having called
\* next() once, also when a call it awaits (a store read or write, a recall,
\* mute, kick or notice) throws
C27_NextExactlyOnce ==
  /\ [](mw.nexts <= 1 /\ ~mw.escaped)
  /\ [](mw.pc = "done" => mw.nexts = 1)
  /\ (mw.pc \in {"try", "await", "catch", "end"})
       ~> (mw.pc = "done" /\ mw.nexts = 1 /\ ~mw.escaped)

C27_Witness ==
  /\ mw.pc = "done"
  /\ mw.which = "registerMessageHandler"
  /\ mw.threw = "updateUserPunishmentRecord"
  /\ mw.nexts = 1
  /\ ~mw.escaped

\* C30: recording a violation, reading the record and resetting it for one
\* user in one guild leave the stored record of every other user and guild
\* as it was, in every field
C30_OtherKeysUntouched ==
  [][ \A k \in Keys :
        k # <<session'.userId, session'.guildId>> => store'[k] = store[k] ]_vars

C30_Witness ==
  /\ calls = <<Call("reset", "u1", "g1", 0, TRUE)>>
  /\ session.userId = "u1"
  /\ session.guildId = "g1"
  /\ store[<<"u1", "g1">>].count = 0
  /\ store[<<"u1", "g2">>].count = 1
  /\ store[<<"u2", "g1">>].count = 1

\* the count of a row once the reset window has been checked at this hour
EffectiveCount(row) ==
  IF now - row.lastTriggerTime > config.punishmentResetHours THEN 0 ELSE row.count

\* C31: no stored count is ever negative, and an operation of the ledger
\* changes the count of a key either to 0 or, when it records a violation
\* for that key, to one more than the count in effect after the check of
\* the reset window
C31_CountSteps ==
  /\ [](\A k \in Keys : store[k].count >= 0)
  /\ [][ \A k \in Keys :
           store'[k].count # store[k].count
             => \/ store'[k].count = 0
                \/ /\ calls' = <<Call("record", k[1], k[2], store'[k].count, TRUE)>>
                   /\ store'[k].count = EffectiveCount(store[k]) + 1 ]_vars

C31_Witness ==
  /\ calls = <<Call("record", "u1", "g1", 1, TRUE)>>
  /\ Len(appended[<<"u1", "g1">>]) = 2
  /\ store[<<"u1", "g1">>].count = 1
  /\ store[<<"u1", "g1">>].lastTriggerTime = now

\* the row has a violation recorded within the reset window of this hour
InWindow(row) ==
  /\ row.present
  /\ row.lastTriggerTime # 0
  /\ now - row.lastTriggerTime <= config.punishmentResetHours

\* the one call of a step is the query for the key
IsQueryOf(cl, k) ==
  /\ Len(cl) = 1
  /\ cl[1].op = "query"
  /\ cl[1].user = k[1]
  /\ cl[1].guild = k[2]

\* C32: a query for a key whose record is inside the reset window leaves
\* every field of the stored record as it was and returns the stored count,
\* and a second query that follows it directly returns the same count
C32_QueryReadOnly ==
  [][ \A k \in Keys :
        ( /\ IsQueryOf(calls', k)
          /\ session'.content = "keyword.warning.my"
          /\ InWindow(store[k]) )
        => /\ store'[k] = store[k]
           /\ calls'[1].n = store[k].count
           /\ IsQueryOf(calls, k) => calls'[1].n = calls[1].n ]_vars

C32_Witness ==
  /\ IsQueryOf(calls, <<"u1", "g2">>)
  /\ session.content = "keyword.warning.my"
  /\ calls[1].n = 1
  /\ InWindow(store[<<"u1", "g2">>])
  /\ store[<<"u1", "g2">>].count = 1
  /\ now > store[<<"u1", "g2">>].lastTriggerTime

\* C33: a manual reset and the reset a query makes once the window has
\* passed change count and lastTriggerTime only, and the violation recorded
\* next appends its entry to the history as it was: the entries recorded
\* before the reset stay in the record, in order, where a query of the
\* record finds them
C33_ResetKeepsHistory ==
  [][ LET row == store[TheKey]
          after == store'[TheKey]
      IN /\ ( /\ Len(calls') = 1
              /\ calls'[1].op \in {"reset", "query"}
              /\ row.present )
            => \/ after = row
               \/ after = [row EXCEPT !.count = 0, !.lastTriggerTime = 0]
         /\ ( /\ Len(appended'[TheKey]) = Len(appended[TheKey]) + 1
              /\ Len(row.actionHistory) < HistoryLimit )
            => /\ Len(after.actionHistory) = Len(row.actionHistory) + 1
               /\ SubSeq(after.actionHistory, 1, Len(row.actionHistory))
                    = row.actionHistory ]_vars

C33_Witness ==
  LET row == store[TheKey]
  IN /\ calls = <<Call("record", TheKey[1], TheKey[2], 1, TRUE)>>
     /\ row.count = 1
     /\ Len(row.actionHistory) = 2
     /\ row.actionHistory[2].time = now
     /\ now - row.actionHistory[1].time <= config.punishmentResetHours

\* C34: syncAllRecords returns a total that is kept plus reset; when it
\* has run, every stored record has a count above 0 and a lastTriggerTime
\* that is not 0 and lies within the reset window, or has count 0 and
\* lastTriggerTime 0; the records it counted as kept are as they were
C34_SyncResult ==
  [][ ( /\ Len(calls') = 1
        /\ calls'[1].op = "sync" )
      => LET result == SyncResult(store, now, config)
         IN /\ result.total = result.kept + result.reset
            /\ calls'[1].n = result.reset
            /\ \A k \in Keys :
                 store'[k].present
                   => \/ /\ store'[k].count > 0
                         /\ store'[k].lastTriggerTime # 0
                         /\ now - store'[k].lastTriggerTime
                              <= config.punishmentResetHours
                      \/ /\ store'[k].count = 0
                         /\ store'[k].lastTriggerTime = 0
            /\ \A k \in Keys :
                 ( /\ store[k].present
                   /\ store[k].count > 0
                   /\ store[k].lastTriggerTime # 0
                   /\ now - store[k].lastTriggerTime
                        <= config.punishmentResetHours )
                 => store'[k] = store[k] ]_vars

C34_Witness ==
  /\ calls = <<Call("sync", "", "", 1, TRUE)>>
  /\ SyncResult(store, now, config) = [total |-> 2, kept |-> 1, reset |-> 1]
  /\ \E k1, k2 \in Keys :
       /\ Len(appended[k1]) = 1
       /\ store[k1].count = 0
       /\ store[k1].lastTriggerTime = 0
       /\ store[k2].count = 1
       /\ store[k2].lastTriggerTime = now

----------------------------------------------------------------------------
(* The keyword operations of GroupConfigManager and kwgroup importpreset,   *)
(* one at a time: with a database that takes every write, and with one      *)
(* whose writes may throw                                                   *)

\* the guilds, keywords, batches and preset names the operations are given
KeywordGuilds == {"g1"}
KeywordInputs == {"ad", "c1"}
KeywordBatches == {<<"ad", " ad", " ">>, <<"c2", "f1", "c2">>}
PresetInputs == {"common", "scam", "nosuch"}

InitGroupKeywords ==
  /\ InitCommon
  /\ config = [DefaultConfig EXCEPT !.enableGroupSpecificConfig = TRUE]

\* what was asked of the manager and what it returned
Asked(op, g, arg, thrown, ret) ==
  Applied([op |-> op, guild |-> g, arg |-> arg, thrown |-> thrown,
           ret |-> ret])

\* the step of a keyword operation: how it leaves the manager
KeywordStep(O) ==
  /\ gcTable' = O.table
  /\ gcCache' = O.cache
  /\ calls' = <<>>
  /\ UNCHANGED <<store, cache, now, config, dbGroupConfig, session,
                 appended, pc, local, started, mpc, mlocal, probe, mw>>

KeywordsAdd ==
  \E g \in KeywordGuilds, keyword \in KeywordInputs :
    LET O == addKeyword(Manager(gcTable, gcCache, g), keyword, FALSE)
    IN /\ KeywordStep(O)
       /\ answer' = Asked("addKeyword", g, keyword, FALSE, O.ret)

KeywordsAddBatch ==
  \E g \in KeywordGuilds, keywords \in KeywordBatches :
    LET O == GroupConfigManager_addKeywordsBatch(
               Manager(gcTable, gcCache, g), keywords, FALSE)
    IN /\ KeywordStep(O)
       /\ answer' = Asked("addKeywordsBatch", g, keywords, FALSE, O.ret)

KeywordsImport ==
  \E g \in KeywordGuilds, presetName \in PresetInputs :
    LET O == GroupConfigManager_importPresetKeywords(
               Manager(gcTable, gcCache, g), presetName, FALSE)
    IN /\ KeywordStep(O)
       /\ answer' = Asked("importPresetKeywords", g, presetName, FALSE, O.ret)

KeywordsRemove ==
  \E g \in KeywordGuilds, keyword \in KeywordInputs :
    LET O == removeKeyword(Manager(gcTable, gcCache, g), keyword, FALSE)
    IN /\ KeywordStep(O)
       /\ answer' = Asked("removeKeyword", g, keyword, FALSE, O.ret)

KeywordsRemoveBatch ==
  \E g \in KeywordGuilds, keywords \in KeywordBatches :
    LET O == removeKeywordsBatch(Manager(gcTable, gcCache, g), keywords,
               FALSE)
    IN /\ KeywordStep(O)
       /\ answer' = Asked("removeKeywordsBatch", g, keywords, FALSE, O.ret)

KeywordsRemovePreset ==
  \E g \in KeywordGuilds, presetName \in PresetInputs :
    LET O == removePresetKeywords(Manager(gcTable, gcCache, g), presetName,
               FALSE)
    IN /\ KeywordStep(O)
       /\ answer' = Asked("removePresetKeywords", g, presetName, FALSE, O.ret)

\* the command kwgroup importpreset, sent in g1
KeywordsCommandImport ==
  \E permitted \in BOOLEAN, presetName \in {"common", "spam", "nosuch"} :
    LET m == Inbound(presetName, Env(TRUE, permitted, TRUE, TRUE, TRUE))
    IN /\ Becomes(groupImportPreset(Current, m, config, permitted, presetName))
       /\ session' = m
       /\ UNCHANGED <<now, config, pc, local, started>>

NextGroupKeywords ==
  \/ KeywordsAdd
  \/ KeywordsAddBatch
  \/ KeywordsImport
  \/ KeywordsRemove
  \/ KeywordsRemoveBatch
  \/ KeywordsRemovePreset
  \/ KeywordsCommandImport

SpecGroupKeywords == InitGroupKeywords /\ [][NextGroupKeywords]_vars

\* the same operations when the database.create or database.set of
\* updateGroupConfig throws
FailingAdd ==
  \E g \in KeywordGuilds, keyword \in KeywordInputs :
    LET O == addKeyword(Manager(gcTable, gcCache, g), keyword, TRUE)
    IN /\ O.attempted
       /\ KeywordStep(O)
       /\ answer' = Asked("addKeyword", g, keyword, TRUE, O.ret)

FailingAddBatch ==
  \E g \in KeywordGuilds, keywords \in KeywordBatches :
    LET O == GroupConfigManager_addKeywordsBatch(
               Manager(gcTable, gcCache, g), keywords, TRUE)
    IN /\ O.attempted
       /\ KeywordStep(O)
       /\ answer' = Asked("addKeywordsBatch", g, keywords, TRUE, O.ret)

FailingRemove ==
  \E g \in KeywordGuilds, keyword \in KeywordInputs :
    LET O == removeKeyword(Manager(gcTable, gcCache, g), keyword, TRUE)
    IN /\ O.attempted
       /\ KeywordStep(O)
       /\ answer' = Asked("removeKeyword", g, keyword, TRUE, O.ret)

FailingRemoveBatch ==
  \E g \in KeywordGuilds, keywords \in KeywordBatches :
    LET O == removeKeywordsBatch(Manager(gcTable, gcCache, g), keywords,
               TRUE)
    IN /\ O.attempted
       /\ KeywordStep(O)
       /\ answer' = Asked("removeKeywordsBatch", g, keywords, TRUE, O.ret)

NextFailingWrites ==
  \/ KeywordsAdd
  \/ KeywordsAddBatch
  \/ KeywordsRemove
  \/ KeywordsRemoveBatch
  \/ FailingAdd
  \/ FailingAddBatch
  \/ FailingRemove
  \/ FailingRemoveBatch

SpecFailingWrites == InitGroupKeywords /\ [][NextFailingWrites]_vars

\* the step was a keyword operation whose durable write threw
WriteThrown(op, g) ==
  /\ answer'.done
  /\ answer'.result.op = op
  /\ answer'.result.guild = g
  /\ answer'.result.thrown
  /\ answer' # answer

\* the operation reported failure: false, or nothing in result.success
ReportsFailure(op, ret) ==
  IF op \in {"addKeyword", "removeKeyword"} THEN ret = FALSE
  ELSE ret.success = <<>>

\* C35: when the durable write of updateGroupConfig throws during
\* addKeyword, addKeywordsBatch, removeKeyword or removeKeywordsBatch, the
\* operation reports failure, and getGroupConfig then returns the keyword
\* list it returned before the operation, which is the stored one
C35_FailedWriteLeavesKeywords ==
  [][ \A g \in KeywordGuilds :
        \A op \in {"addKeyword", "addKeywordsBatch", "removeKeyword",
                   "removeKeywordsBatch"} :
          WriteThrown(op, g)
            => /\ ReportsFailure(op, answer'.result.ret)
               /\ GroupConfigOf(gcTable', gcCache', g).keywords
                    = GroupConfigOf(gcTable, gcCache, g).keywords
               /\ GroupConfigOf(gcTable', gcCache', g).keywords
                    = gcTable'[g].keywords ]_vars

\* no entry of the list occurs twice
NoDuplicates(list) ==
  \A i, j \in 1..Len(list) : i # j => list[i] # list[j]

\* importPresetKeywords was the operation before, for the guild and preset
ImportedBefore(g, presetName) ==
  /\ calls = <<>>
  /\ answer.done
  /\ answer.result.op = "importPresetKeywords"
  /\ answer.result.guild = g
  /\ answer.result.arg = presetName

\* importPresetKeywords is the operation of this step
ImportsAgain(g, presetName) ==
  /\ calls' = <<>>
  /\ answer'.done
  /\ answer'.result.op = "importPresetKeywords"
  /\ answer'.result.guild = g
  /\ answer'.result.arg = presetName

\* kwgroup importpreset was accepted as the operation before and is
\* accepted again in this step, for the same preset
CommandImportsAgain ==
  /\ Len(calls) = 1 /\ calls[1].op = "importpreset" /\ calls[1].ok
  /\ Len(calls') = 1 /\ calls'[1].op = "importpreset" /\ calls'[1].ok
  /\ session'.content = session.content

\* C36: whatever keyword operations are applied to a guild, its stored
\* keyword list holds no entry twice, and an import of a preset that
\* directly follows an import of the same preset adds no keyword: every
\* keyword of the preset is reported as a duplicate and the stored list
\* stays as it is
C36_NoDuplicateKeywords ==
  /\ [](\A g \in Guilds : /\ NoDuplicates(gcTable[g].keywords)
                           /\ NoDuplicates(dbGroupConfig[g].keywords))
  /\ [][ /\ \A g \in KeywordGuilds, presetName \in PresetInputs :
            ImportedBefore(g, presetName) /\ ImportsAgain(g, presetName)
              => /\ answer'.result.ret.success = <<>>
                 /\ answer'.result.ret.other = GcmPresetKeywords(presetName)
                 /\ gcTable' = gcTable
         /\ CommandImportsAgain
              => /\ calls'[1].n = 0
                 /\ dbGroupConfig' = dbGroupConfig ]_vars

\* an import of the preset common into a list that holds other keywords
\* as well found both of its keywords there
C36_Witness ==
  /\ answer.done
  /\ answer.result.op = "importPresetKeywords"
  /\ answer.result.arg = "common"
  /\ answer.result.ret = BatchResult(<<>>, <<"c1", "c2">>, 2)
  /\ gcTable["g1"].keywords = <<"ad", "c1", "c2">>
  /\ Len(dbGroupConfig["g1"].keywords) = 3

----------------------------------------------------------------------------
(* Overrides written and deleted by an administrator between calls of      *)
(* getMergedConfig, one call at a time                                     *)

\* the step of an administrator: how it leaves the manager; the calls of
\* getMergedConfig that returned before it are forgotten
AdminStep(O) ==
  /\ gcTable' = O.table
  /\ gcCache' = O.cache
  /\ mpc' = [p \in Procs |-> "idle"]
  /\ mlocal' = [p \in Procs |-> NoLocal]
  /\ UNCHANGED <<store, cache, now, config, dbGroupConfig, session, calls,
                 appended, pc, local, started, probe, mw>>

\* updateGroupConfig with a whole override
ResetWrite ==
  /\ Settled
  /\ \E g \in Guilds, o \in Overrides :
       LET O == GroupConfigManager_updateGroupConfig(
                  Manager(gcTable, gcCache, g), o, FALSE)
       IN /\ AdminStep(O)
          /\ answer' = Asked("updateGroupConfig", g, o.keywords, FALSE, O.ret)

\* deleteGroupConfig of an override there is
ResetDelete ==
  /\ Settled
  /\ \E g \in Guilds, thrown \in BOOLEAN :
       LET O == deleteGroupConfig(Manager(gcTable, gcCache, g), thrown)
       IN /\ gcTable[g].present
          /\ AdminStep(O)
          /\ answer' = Asked("deleteGroupConfig", g, <<>>, thrown, O.ret)

NextReset ==
  \/ ResetWrite
  \/ ResetDelete
  \/ \E p \in Procs : Alone(p) /\ ResolveStart(p)
  \/ \E p \in Procs : Alone(p) /\ ResolveGet(p)
  \/ \E p \in Procs : Alone(p) /\ ResolveUpdateGet(p)
  \/ \E p \in Procs : Alone(p) /\ ResolveWrite(p)
  \/ \E p \in Procs : Alone(p) /\ ResolveReload(p)
  \/ \E p \in Procs : Alone(p) /\ ResolveImport(p)

SpecReset == InitResolve /\ [][NextReset]_vars

\* the last thing an administrator did was a deleteGroupConfig of the
\* guild that returned true
Deleted(g) ==
  /\ answer.done
  /\ answer.result.op = "deleteGroupConfig"
  /\ answer.result.guild = g
  /\ answer.result.ret

\* the step writes an override of the guild
WritesOverride(g) ==
  /\ answer'.done
  /\ answer'.result.op = "updateGroupConfig"
  /\ answer'.result.guild = g
  /\ \A p \in Procs : mpc'[p] = "idle"

\* C37: once deleteGroupConfig has removed the override of a guild,
\* getGroupConfig finds it neither in the cache nor in the table; for a
\* guild that is not pre-enabled, every getMergedConfig that returns
\* afterwards returns the global configuration, and the guild stays
\* without an override until an administrator writes one
C37_ResetFallsBackToGlobal ==
  /\ [](\A g \in Guilds :
          Deleted(g) /\ (\A p \in Procs : mpc[p] = "idle")
            => /\ ~gcCache[g].present
               /\ ~gcTable[g].present
               /\ ~GroupConfigOf(gcTable, gcCache, g).present)
  /\ [](\A g \in Guilds \ config.enabledGroups :
          ~gcTable[g].present
            => /\ ~gcCache[g].present
               /\ \A p \in Procs :
                    mpc[p] = "done" /\ mlocal[p].guild = g
                      => mlocal[p].result = config)
  /\ [][ \A g \in Guilds \ config.enabledGroups :
           ~gcTable[g].present /\ gcTable'[g].present => WritesOverride(g) ]_vars

\* the override of g2 was deleted and a getMergedConfig for g2 has since
\* returned the global configuration, while g1 keeps its override
C37_Witness ==
  /\ Deleted("g2")
  /\ config.enableGroupSpecificConfig
  /\ "g2" \notin config.enabledGroups
  /\ gcTable["g1"].present /\ gcTable["g1"].enabled
  /\ \E p \in Procs :
       /\ mpc[p] = "done"
       /\ mlocal[p].guild = "g2"
       /\ mlocal[p].result = config

----------------------------------------------------------------------------
(* registerMessageHandler, from the configuration as the administrator     *)
(* wrote it to the messages that reach the middleware it registers         *)

\* the keyword lists an administrator configures
ConfiguredKeywords == {<<>>, <<"spam">>, <<"kun", "spam">>}

InitRegistration ==
  /\ InitCommon
  /\ config \in {[DefaultConfig EXCEPT !.keywords = keywords] :
                   keywords \in ConfiguredKeywords}

\* registerMessageHandler up to ctx.middleware: answer keeps the keyword
\* list it was given
Register ==
  /\ ~answer.done
  /\ answer' = Asked("registerMessageHandler", "", config.keywords, FALSE,
                     TRUE)
  /\ config' = [config EXCEPT !.keywords = RegisteredKeywords(@)]
  /\ UNCHANGED <<store, cache, now, dbGroupConfig, session, calls, appended,
                 pc, local, started, resolveVars, probe, mw>>

\* a message reaches the middleware registered
RegistrationMessage ==
  \E content \in {"hello", "ikun fan", "this is spam", "see evil.example"},
     e \in Environments :
    LET m == Inbound(content, e)
    IN /\ answer.done
       /\ Len(appended[TheKey]) < MaxRecords
       /\ Becomes(registeredMiddleware(Current, m, config, now))
       /\ session' = m
       /\ UNCHANGED <<now, config, pc, local, started>>

NextRegistration == Register \/ RegistrationMessage

SpecRegistration == InitRegistration /\ [][NextRegistration]_vars

\* the handler is registered; the keyword list it was given
Registered == answer.done /\ answer.result.op = "registerMessageHandler"

\* C38: registering the message handler leaves the global keyword list as
\* configured, and a message that contains none of the configured keywords
\* and no URL outside the whitelist gets no verdict
C38_RegistrationKeepsKeywords ==
  /\ [](Registered => config.keywords = answer.result.arg)
  /\ [][ ( /\ Registered
           /\ calls' # calls \/ session' # session
           /\ checkKeywords(session'.content, answer.result.arg) = ""
           /\ UrlHandler_checkUrls(session'.content, config.urlWhitelist) = "" )
         => \A i \in 1..Len(calls') : ~IsVerdict(calls'[i]) ]_vars

====
